---- MODULE Spec2Model ----
(***************************************************************************)
(* Model of the pattern-algebra core: pattern ASTs, the segment matcher,   *)
(* the automaton builder, the quick-reject filter, the matcher, the        *)
(* determinizer, the product/union/complement operations and the           *)
(* pattern-level algebra.                                                  *)
(*                                                                         *)
(* Strings are sequences of one-character strings, so that length,         *)
(* startsWith, endsWith, split and regular-expression tests are computed   *)
(* character by character.  State ids are 0-based as in the source; the    *)
(* state with id i is states[i + 1].  An optional value is <<>> when       *)
(* undefined and <<v>> when defined.                                       *)
(***************************************************************************)
EXTENDS Integers, Sequences, FiniteSets, TLC

VARIABLES
    srcA,       \* source of pattern a (<<>> before it is compiled)
    srcB,       \* source of pattern b
    a,          \* compiled pattern a (<<>> before compilation)
    b,          \* compiled pattern b
    op,         \* the algebra operations applied so far, oldest first
    result,     \* the compiled patterns those operations returned
    det,        \* the last determinize call: its input, option and outcome
    path,       \* the path matched
    verdict,    \* the verdicts of that match
    emptiness,  \* the last isEmpty/findWitness call: its automaton and results
    containment,\* the result of checkContainment(a, b)
    fa,         \* a quick-reject filter
    fb,         \* another quick-reject filter
    merged,     \* the last merge of fa and fb: its mode and the merged filter
    counted     \* the last countPaths call: its maxDepth and the counts

sessionVars == <<srcA, srcB, a, b, op, result, det, path, verdict, emptiness, containment>>

filterVars == <<fa, fb, merged>>

countVars == <<counted>>

vars == <<sessionVars, filterVars, countVars>>

----------------------------------------------------------------------------
(* Bounds of the model *)

MaxPatternSegments == 2
MaxBranchSegments == 1
MaxPathSegments == 2
MaxStatesOption == 4
MaxFilterSegments == 1
MaxMinLength == 3
MaxCountDepth == 3
MaxNegatedSegments == 1

----------------------------------------------------------------------------
(* Optional values and sequence helpers *)

None == <<>>
Some(v) == <<v>>
IsDefined(o) == o # <<>>
Val(o) == o[1]

Min2(x, y) == IF x <= y THEN x ELSE y
Max2(x, y) == IF x >= y THEN x ELSE y

Range(s) == {s[i] : i \in 1..Len(s)}

RECURSIVE Concat(_)
Concat(ss) == IF ss = <<>> THEN <<>> ELSE Head(ss) \o Concat(Tail(ss))

\* String.prototype.startsWith(lit, pos), pos 0-based
StartsWithAt(s, lit, pos) ==
    /\ pos + Len(lit) <= Len(s)
    /\ \A i \in 1..Len(lit) : s[pos + i] = lit[i]

StartsWith(s, p) == StartsWithAt(s, p, 0)

EndsWith(s, p) ==
    /\ Len(p) <= Len(s)
    /\ \A i \in 1..Len(p) : s[Len(s) - Len(p) + i] = p[i]

\* Array.prototype.join('/')
RECURSIVE JoinSlash(_)
JoinSlash(segs) ==
    IF segs = <<>> THEN <<>>
    ELSE IF Len(segs) = 1 THEN segs[1]
    ELSE segs[1] \o <<"/">> \o JoinSlash(Tail(segs))

\* String.prototype.split('/')
RECURSIVE SplitSlashFrom(_, _, _)
SplitSlashFrom(s, i, current) ==
    IF i > Len(s) THEN <<current>>
    ELSE IF s[i] = "/" THEN <<current>> \o SplitSlashFrom(s, i + 1, <<>>)
    ELSE SplitSlashFrom(s, i + 1, Append(current, s[i]))

SplitSlash(s) == SplitSlashFrom(s, 1, <<>>)

----------------------------------------------------------------------------
(* Paths *)

segmentsToPath(segments) ==
    IF Len(segments) = 0 THEN <<"/">> ELSE <<"/">> \o JoinSlash(segments)

pathToSegments(p) ==
    IF p = <<>> \/ p = <<"/">> THEN <<>>
    ELSE LET withoutLeadingSlash == IF StartsWith(p, <<"/">>) THEN Tail(p) ELSE p
             withoutTrailingSlash ==
                 IF EndsWith(withoutLeadingSlash, <<"/">>)
                 THEN SubSeq(withoutLeadingSlash, 1, Len(withoutLeadingSlash) - 1)
                 ELSE withoutLeadingSlash
         IN  IF withoutTrailingSlash = <<>> THEN <<>> ELSE SplitSlash(withoutTrailingSlash)

----------------------------------------------------------------------------
(* Parser: a pattern source is given already split into brace branches and *)
(* segments; no segment of the model holds a backslash or a bracket.       *)

hasUnescapedSpecial(segment, chars) ==
    \E i \in 1..Len(segment) : segment[i] \in chars

RECURSIVE parsePartsFrom(_, _, _, _)
parsePartsFrom(segment, i, literalBuffer, parts) ==
    LET flushed == IF literalBuffer # <<>>
                   THEN Append(parts, [type |-> "literal", value |-> literalBuffer])
                   ELSE parts
    IN  IF i > Len(segment) THEN flushed
        ELSE IF segment[i] = "*"
             THEN parsePartsFrom(segment, i + 1, <<>>, Append(flushed, [type |-> "star"]))
        ELSE IF segment[i] = "?"
             THEN parsePartsFrom(segment, i + 1, <<>>, Append(flushed, [type |-> "question"]))
        ELSE parsePartsFrom(segment, i + 1, Append(literalBuffer, segment[i]), parts)

parseSegmentParts(segment) == parsePartsFrom(segment, 1, <<>>, <<>>)

parseSegment(segment) ==
    IF segment = <<"*", "*">> THEN [type |-> "globstar"]
    ELSE IF ~hasUnescapedSpecial(segment, {"*", "?"})
         THEN [type |-> "literal", value |-> segment]
    ELSE [type |-> "wildcard", pattern |-> segment, parts |-> parseSegmentParts(segment)]

parseSegmentSequence(segmentStrings) ==
    [type |-> "sequence",
     segments |-> [i \in 1..Len(segmentStrings) |-> parseSegment(segmentStrings[i])]]

parsePattern(source) ==
    [source |-> source,
     root |-> IF Len(source.branches) = 1
              THEN parseSegmentSequence(source.branches[1])
              ELSE [type |-> "alternation",
                    branches |-> [i \in 1..Len(source.branches) |->
                                     parseSegmentSequence(source.branches[i])]],
     isAbsolute |-> source.absolute,
     isNegation |-> source.negated]

----------------------------------------------------------------------------
(* Segment matcher *)

RECURSIVE matchWildcardParts(_, _, _, _)
matchWildcardParts(segment, segPos, parts, partIndex) ==
    IF partIndex >= Len(parts) THEN segPos = Len(segment)
    ELSE LET part == parts[partIndex + 1] IN
         CASE part.type = "literal" ->
                  /\ StartsWithAt(segment, part.value, segPos)
                  /\ matchWildcardParts(segment, segPos + Len(part.value), parts, partIndex + 1)
           [] part.type = "question" ->
                  /\ segPos < Len(segment)
                  /\ matchWildcardParts(segment, segPos + 1, parts, partIndex + 1)
           [] part.type = "star" ->
                  \/ partIndex = Len(parts) - 1
                  \/ \E i \in segPos..Len(segment) :
                         matchWildcardParts(segment, i, parts, partIndex + 1)

matchSegment(segment, pattern) ==
    CASE pattern.type = "literal" -> segment = pattern.value
      [] pattern.type = "globstar" -> TRUE
      [] pattern.type = "wildcard" -> matchWildcardParts(segment, 0, pattern.parts, 0)

(* Regular expressions: an anchored sequence of tokens, each a character,  *)
(* ".", ".*" or ".+".  RegexSource is the text RegExp.source returns.      *)

RegexToken(t) == [k |-> t]
RegexChar(c) == [k |-> "chr", c |-> c]

RegExp(tokens) == [k |-> "regex", tokens |-> tokens]

TokenSource(t) ==
    CASE t.k = "chr" -> <<t.c>>
      [] t.k = "dot" -> <<".">>
      [] t.k = "dotstar" -> <<".", "*">>
      [] t.k = "dotplus" -> <<".", "+">>

RegexSource(re) ==
    <<"^">> \o Concat([i \in 1..Len(re.tokens) |-> TokenSource(re.tokens[i])]) \o <<"$">>

\* the characters "." does not match (the regular expressions have no s flag)
LineTerminators == {"\n", "\r"}

\* str[from + 1 .. to] holds no line terminator
DotRun(str, from, to) == \A k \in (from + 1)..to : str[k] \notin LineTerminators

\* the positions (0-based) the first n tokens can reach in str
RECURSIVE RegexReach(_, _, _)
RegexReach(tokens, n, str) ==
    IF n = 0 THEN {0}
    ELSE LET before == RegexReach(tokens, n - 1, str)
             t == tokens[n]
         IN  CASE t.k = "chr" -> {p + 1 : p \in {q \in before : q < Len(str) /\ str[q + 1] = t.c}}
               [] t.k = "dot" -> {p + 1 : p \in {q \in before : q < Len(str) /\ DotRun(str, q, q + 1)}}
               [] t.k = "dotstar" -> {p \in 0..Len(str) : \E q \in before : q <= p /\ DotRun(str, q, p)}
               [] t.k = "dotplus" -> {p \in 0..Len(str) : \E q \in before : q < p /\ DotRun(str, q, p)}

RegexTest(re, str) == Len(str) \in RegexReach(re.tokens, Len(re.tokens), str)

\* a SegmentMatcher built by createIntersectionPattern tests both operands
RECURSIVE PatternTest(_, _)
PatternTest(pattern, str) ==
    IF pattern.k = "regex" THEN RegexTest(pattern, str)
    ELSE PatternTest(pattern.patternA, str) /\ PatternTest(pattern.patternB, str)

RECURSIVE PatternSourceText(_)
PatternSourceText(pattern) ==
    IF pattern.k = "regex" THEN RegexSource(pattern)
    ELSE <<"(">> \o PatternSourceText(pattern.patternA) \o <<")", "&", "(">>
         \o PatternSourceText(pattern.patternB) \o <<")">>

wildcardToRegex(pattern) ==
    RegExp(Concat([i \in 1..Len(pattern.parts) |->
        LET part == pattern.parts[i] IN
        CASE part.type = "literal" -> [j \in 1..Len(part.value) |-> RegexChar(part.value[j])]
          [] part.type = "star" -> <<RegexToken("dotstar")>>
          [] part.type = "question" -> <<RegexToken("dot")>>]))

segmentToRegex(pattern) ==
    CASE pattern.type = "literal" -> None
      [] pattern.type = "globstar" -> Some(RegExp(<<RegexToken("dotplus")>>))
      [] pattern.type = "wildcard" -> Some(wildcardToRegex(pattern))

----------------------------------------------------------------------------
(* Automaton builder *)

State(automaton, id) == automaton.states[id + 1]

createState(builder, accepting) ==
    [states |-> Append(builder.states,
                       [id |-> Len(builder.states), transitions |-> <<>>, accepting |-> accepting])]

\* the id createState gives the state it adds to builder
nextStateId(builder) == Len(builder.states)

addTransition(builder, fromState, transition) ==
    [states |-> [builder.states EXCEPT ![fromState + 1].transitions = Append(@, transition)]]

buildSegmentAutomaton(builder, segment, startState, endState) ==
    CASE segment.type = "literal" ->
             addTransition(builder, startState,
                 [type |-> "literal", segment |-> segment.value, target |-> endState])
      [] segment.type = "globstar" ->
             addTransition(builder, startState,
                 [type |-> "globstar", selfLoop |-> startState, exit |-> endState])
      [] segment.type = "wildcard" ->
             LET regex == segmentToRegex(segment) IN
             IF IsDefined(regex)
             THEN addTransition(builder, startState,
                      [type |-> "wildcard", pattern |-> Val(regex),
                       patternSource |-> segment.pattern, target |-> endState])
             ELSE builder

RECURSIVE buildSegmentsFrom(_, _, _, _, _)
buildSegmentsFrom(builder, segments, i, currentState, endState) ==
    IF i > Len(segments) THEN builder
    ELSE LET isLast == i = Len(segments)
             withNext == IF isLast THEN builder ELSE createState(builder, FALSE)
             nextState == IF isLast THEN endState ELSE nextStateId(builder)
         IN  buildSegmentsFrom(
                 buildSegmentAutomaton(withNext, segments[i], currentState, nextState),
                 segments, i + 1, nextState, endState)

buildSequenceAutomaton(builder, sequence, startState, endState) ==
    IF Len(sequence.segments) = 0
    THEN addTransition(builder, startState, [type |-> "epsilon", target |-> endState])
    ELSE buildSegmentsFrom(builder, sequence.segments, 1, startState, endState)

RECURSIVE buildNodeAutomaton(_, _, _, _)
RECURSIVE buildBranchesFrom(_, _, _, _, _)
buildBranchesFrom(builder, branches, i, startState, endState) ==
    IF i > Len(branches) THEN builder
    ELSE LET branchStart == nextStateId(builder)
             branchEnd == branchStart + 1
             b1 == createState(createState(builder, FALSE), FALSE)
             b2 == addTransition(b1, startState, [type |-> "epsilon", target |-> branchStart])
             b3 == buildNodeAutomaton(b2, branches[i], branchStart, branchEnd)
             b4 == addTransition(b3, branchEnd, [type |-> "epsilon", target |-> endState])
         IN  buildBranchesFrom(b4, branches, i + 1, startState, endState)

buildAlternationAutomaton(builder, alternation, startState, endState) ==
    buildBranchesFrom(builder, alternation.branches, 1, startState, endState)

buildNodeAutomaton(builder, node, startState, endState) ==
    IF node.type = "sequence"
    THEN buildSequenceAutomaton(builder, node, startState, endState)
    ELSE buildAlternationAutomaton(builder, node, startState, endState)

buildAutomaton(pattern) ==
    LET b0 == createState(createState([states |-> <<>>], FALSE), TRUE)
        initialId == 0
        finalId == 1
        built == buildNodeAutomaton(b0, pattern.root, initialId, finalId)
    IN  [states |-> built.states,
         initialState |-> initialId,
         acceptingStates |-> <<finalId>>,
         isDeterministic |-> FALSE]

RECURSIVE MinOver(_)
MinOver(ns) == IF Len(ns) = 1 THEN ns[1] ELSE Min2(ns[1], MinOver(Tail(ns)))

RECURSIVE MaxOver(_)
MaxOver(ns) == IF Len(ns) = 1 THEN ns[1] ELSE Max2(ns[1], MaxOver(Tail(ns)))

RECURSIVE getNodeMinSegments(_)
getNodeMinSegments(node) ==
    IF node.type = "sequence"
    THEN Cardinality({i \in 1..Len(node.segments) : node.segments[i].type # "globstar"})
    ELSE MinOver([i \in 1..Len(node.branches) |-> getNodeMinSegments(node.branches[i])])

\* <<>> is undefined (unbounded)
RECURSIVE getNodeMaxSegments(_)
getNodeMaxSegments(node) ==
    IF node.type = "sequence"
    THEN IF \E i \in 1..Len(node.segments) : node.segments[i].type = "globstar"
         THEN None
         ELSE Some(Len(node.segments))
    ELSE LET maxes == [i \in 1..Len(node.branches) |-> getNodeMaxSegments(node.branches[i])] IN
         IF \E i \in 1..Len(maxes) : ~IsDefined(maxes[i])
         THEN None
         ELSE Some(MaxOver([i \in 1..Len(maxes) |-> Val(maxes[i])]))

getMinSegments(pattern) == getNodeMinSegments(pattern.root)
getMaxSegments(pattern) == getNodeMaxSegments(pattern.root)
isUnbounded(pattern) == ~IsDefined(getMaxSegments(pattern))

----------------------------------------------------------------------------
(* Quick-reject filter *)

RECURSIVE SumOver(_)
SumOver(ns) == IF ns = <<>> THEN 0 ELSE ns[1] + SumOver(Tail(ns))

getSegmentMinLength(segment) ==
    CASE segment.type = "literal" -> Len(segment.value)
      [] segment.type = "globstar" -> 0
      [] segment.type = "wildcard" ->
             SumOver([i \in 1..Len(segment.parts) |->
                 LET part == segment.parts[i] IN
                 IF part.type = "literal" THEN Len(part.value)
                 ELSE IF part.type = "question" THEN 1 ELSE 0])

\* the values of the leading literal segments
RECURSIVE LeadingLiterals(_)
LeadingLiterals(segments) ==
    IF segments = <<>> \/ segments[1].type # "literal" THEN <<>>
    ELSE <<segments[1].value>> \o LeadingLiterals(Tail(segments))

\* the values of the trailing literal segments
RECURSIVE TrailingLiterals(_)
TrailingLiterals(segments) ==
    IF segments = <<>> \/ segments[Len(segments)].type # "literal" THEN <<>>
    ELSE Append(TrailingLiterals(SubSeq(segments, 1, Len(segments) - 1)),
                segments[Len(segments)].value)

RECURSIVE AllLiterals(_)
AllLiterals(segments) ==
    IF segments = <<>> THEN <<>>
    ELSE (IF segments[1].type = "literal" THEN <<segments[1].value>> ELSE <<>>)
         \o AllLiterals(Tail(segments))

EmptyFilter ==
    [requiredPrefix |-> None, requiredSuffix |-> None,
     requiredLiterals |-> None, minLength |-> None]

extractSequenceFilters(sequence) ==
    LET segments == sequence.segments
        prefixParts == LeadingLiterals(segments)
        suffixParts == TrailingLiterals(segments)
        literals == AllLiterals(segments)
        minLengthValue ==
            SumOver([i \in 1..Len(segments) |-> getSegmentMinLength(segments[i]) + 1])
    IN  [requiredPrefix |->
             IF Len(prefixParts) > 0 THEN Some(<<"/">> \o JoinSlash(prefixParts)) ELSE None,
         requiredSuffix |->
             IF Len(suffixParts) > 0 /\ Len(suffixParts) < Len(segments)
             THEN Some(<<"/">> \o JoinSlash(suffixParts)) ELSE None,
         requiredLiterals |-> IF Len(literals) > 0 THEN Some(literals) ELSE None,
         minLength |-> IF minLengthValue > 1 THEN Some(minLengthValue) ELSE None]

buildQuickRejectFilter(pattern) ==
    IF pattern.root.type = "sequence" THEN extractSequenceFilters(pattern.root) ELSE EmptyFilter

applyQuickReject(p, filter) ==
    /\ ~(IsDefined(filter.minLength) /\ Len(p) < Val(filter.minLength))
    /\ ~(IsDefined(filter.requiredPrefix) /\ ~StartsWith(p, Val(filter.requiredPrefix)))
    /\ ~(IsDefined(filter.requiredSuffix) /\ ~EndsWith(p, Val(filter.requiredSuffix)))
    /\ ~(IsDefined(filter.requiredLiterals)
         /\ \E required \in Range(Val(filter.requiredLiterals)) :
                required \notin Range(SplitSlash(p)))

----------------------------------------------------------------------------
(* Compiler *)

compilePattern(pattern) ==
    [source |-> pattern.source,
     ast |-> pattern,
     quickReject |-> buildQuickRejectFilter(pattern),
     automaton |-> buildAutomaton(pattern),
     isUnbounded |-> isUnbounded(pattern),
     minSegments |-> getMinSegments(pattern),
     maxSegments |-> getMaxSegments(pattern)]

----------------------------------------------------------------------------
(* Matcher *)

\* the targets one pass over the transitions of the states in frontier adds
EpsilonTargets(automaton, frontier) ==
    UNION {{IF t.type = "epsilon" THEN t.target ELSE t.exit :
               t \in {u \in Range(State(automaton, s).transitions) :
                          u.type \in {"epsilon", "globstar"}}} : s \in frontier}

RECURSIVE epsilonClosureFrom(_, _, _)
epsilonClosureFrom(automaton, closure, frontier) ==
    LET added == EpsilonTargets(automaton, frontier) \ closure IN
    IF added = {} THEN closure
    ELSE epsilonClosureFrom(automaton, closure \cup added, added)

epsilonClosure(automaton, states) == epsilonClosureFrom(automaton, states, states)

matchTransition(transition, segment) ==
    CASE transition.type = "literal" -> transition.segment = segment
      [] transition.type = "wildcard" -> PatternTest(transition.pattern, segment)
      [] transition.type = "globstar" -> TRUE
      [] transition.type = "epsilon" -> FALSE

getTransitionTarget(transition) ==
    CASE transition.type \in {"literal", "wildcard"} -> Some(transition.target)
      [] transition.type = "globstar" -> Some(transition.selfLoop)
      [] transition.type = "epsilon" -> None

\* the index of the first transition of the given type that takes the segment, 0 if none
FirstMatching(transitions, type, segment) ==
    LET hits == {i \in 1..Len(transitions) :
                    /\ transitions[i].type = type
                    /\ matchTransition(transitions[i], segment)}
    IN  IF hits = {} THEN 0 ELSE CHOOSE i \in hits : \A j \in hits : i <= j

getDeterministicTarget(transitions, segment) ==
    LET lit == FirstMatching(transitions, "literal", segment)
        wild == FirstMatching(transitions, "wildcard", segment)
        glob == FirstMatching(transitions, "globstar", segment)
    IN  IF lit # 0 THEN Some(transitions[lit].target)
        ELSE IF wild # 0 THEN Some(transitions[wild].target)
        ELSE IF glob # 0 THEN Some(transitions[glob].selfLoop)
        ELSE None

\* the states one segment leads to from currentStates, before epsilon closure
StepStates(automaton, currentStates, segment) ==
    IF automaton.isDeterministic
    THEN {Val(tg) : tg \in {getDeterministicTarget(State(automaton, s).transitions, segment) :
                                s \in currentStates} \ {None}}
    ELSE UNION {{Val(getTransitionTarget(t)) :
                    t \in {u \in Range(State(automaton, s).transitions) :
                               matchTransition(u, segment)}} : s \in currentStates}

RECURSIVE simulateFrom(_, _, _, _)
simulateFrom(automaton, currentStates, segments, i) ==
    IF i > Len(segments)
    THEN \E s \in currentStates : State(automaton, s).accepting
    ELSE LET nextStates == epsilonClosure(automaton, StepStates(automaton, currentStates, segments[i])) IN
         IF nextStates = {} THEN FALSE
         ELSE simulateFrom(automaton, nextStates, segments, i + 1)

simulateNFA(automaton, segments) ==
    simulateFrom(automaton, epsilonClosure(automaton, {automaton.initialState}), segments, 1)

matchPathUnderlying(p, pattern) ==
    LET segments == pathToSegments(p) IN
    /\ applyQuickReject(p, pattern.quickReject)
    /\ Len(segments) >= pattern.minSegments
    /\ ~(IsDefined(pattern.maxSegments) /\ Len(segments) > Val(pattern.maxSegments))
    /\ simulateNFA(pattern.automaton, segments)

matchPath(p, pattern) ==
    LET matches == matchPathUnderlying(p, pattern) IN
    IF pattern.ast.isNegation THEN ~matches ELSE matches

RECURSIVE matchPatternNode(_, _, _)
RECURSIVE matchSequenceRecursive(_, _, _, _)
matchSequenceRecursive(segments, segIndex, patterns, patIndex) ==
    IF patIndex >= Len(patterns) THEN Some(segIndex)
    ELSE LET pattern == patterns[patIndex + 1] IN
         IF pattern.type = "globstar"
         THEN LET good == {consume \in 0..(Len(segments) - segIndex) :
                              matchSequenceRecursive(segments, segIndex + consume,
                                                     patterns, patIndex + 1)
                                  = Some(Len(segments))}
              IN  IF good = {} THEN None ELSE Some(Len(segments))
         ELSE IF segIndex >= Len(segments) THEN None
         ELSE IF ~matchSegment(segments[segIndex + 1], pattern) THEN None
         ELSE matchSequenceRecursive(segments, segIndex + 1, patterns, patIndex + 1)

matchSequence(segments, startIndex, patterns) ==
    matchSequenceRecursive(segments, startIndex, patterns, 0)

\* the result of the first branch from index i on that matches
RECURSIVE matchBranchesFrom(_, _, _, _)
matchBranchesFrom(segments, startIndex, branches, i) ==
    IF i > Len(branches) THEN None
    ELSE LET r == matchPatternNode(segments, startIndex, branches[i]) IN
         IF IsDefined(r) THEN r ELSE matchBranchesFrom(segments, startIndex, branches, i + 1)

matchPatternNode(segments, startIndex, node) ==
    IF node.type = "sequence"
    THEN matchSequence(segments, startIndex, node.segments)
    ELSE matchBranchesFrom(segments, startIndex, node.branches, 1)

matchPathDirect(p, pattern) ==
    IsDefined(matchPatternNode(pathToSegments(p), 0, pattern.root))

----------------------------------------------------------------------------
(* Determinizer *)

DEFAULT_MAX_DFA_STATES == 10000

\* the index (0-based) of key in the sequence keys, <<>> if absent
Lookup(keys, key) ==
    LET hits == {i \in 1..Len(keys) : keys[i] = key} IN
    IF hits = {} THEN None ELSE Some((CHOOSE i \in hits : TRUE) - 1)

\* all transitions of the automaton, state by state
RECURSIVE AllTransitionsFrom(_, _)
AllTransitionsFrom(automaton, i) ==
    IF i > Len(automaton.states) THEN <<>>
    ELSE automaton.states[i].transitions \o AllTransitionsFrom(automaton, i + 1)

WildcardKey(transition) ==
    IF transition.patternSource # <<>> THEN transition.patternSource
    ELSE PatternSourceText(transition.pattern)

RECURSIVE collectAlphabetFrom(_, _, _, _, _)
collectAlphabetFrom(transitions, i, literalSet, wildcardSet, symbols) ==
    IF i > Len(transitions) THEN symbols
    ELSE LET t == transitions[i] IN
         IF t.type = "literal" /\ t.segment \notin literalSet
         THEN collectAlphabetFrom(transitions, i + 1, literalSet \cup {t.segment}, wildcardSet,
                  Append(symbols, [type |-> "literal", value |-> t.segment]))
         ELSE IF t.type = "wildcard" /\ WildcardKey(t) \notin wildcardSet
         THEN collectAlphabetFrom(transitions, i + 1, literalSet, wildcardSet \cup {WildcardKey(t)},
                  Append(symbols, [type |-> "wildcard", pattern |-> t.pattern,
                                   patternSource |-> t.patternSource]))
         ELSE collectAlphabetFrom(transitions, i + 1, literalSet, wildcardSet, symbols)

collectAlphabet(automaton) ==
    collectAlphabetFrom(AllTransitionsFrom(automaton, 1), 1, {}, {}, <<>>)

matchesSymbol(transition, symbol) ==
    IF transition.type = "literal" /\ symbol.type = "literal"
    THEN transition.segment = symbol.value
    ELSE IF transition.type = "wildcard" /\ symbol.type = "wildcard"
    THEN transition.patternSource = symbol.patternSource
    ELSE FALSE

getTarget(transition) ==
    IF transition.type = "globstar" THEN transition.selfLoop ELSE transition.target

computeTransition(nfa, fromStates, symbol) ==
    epsilonClosure(nfa,
        UNION {{getTarget(t) : t \in {u \in Range(State(nfa, s).transitions) :
                                          matchesSymbol(u, symbol)}} : s \in fromStates})

computeAnyTransition(nfa, fromStates) ==
    epsilonClosure(nfa,
        UNION {{t.selfLoop : t \in {u \in Range(State(nfa, s).transitions) :
                                        u.type = "globstar"}} : s \in fromStates})

CatchAllWildcard(target) ==
    [type |-> "wildcard", pattern |-> RegExp(<<RegexToken("dotstar")>>),
     patternSource |-> <<"*">>, target |-> target]

\* the sources the test /^\^?\.\*\$?$/ accepts
IsCatchAllSource(source) ==
    source \in {<<".", "*">>, <<"^", ".", "*">>, <<".", "*", "$">>, <<"^", ".", "*", "$">>}

hasCatchAll(state) ==
    \E t \in Range(state.transitions) :
        t.type = "wildcard" /\ IsCatchAllSource(PatternSourceText(t.pattern))

makeComplete(dfa) ==
    LET sinkStateId == Len(dfa.states)
        sinkState == [id |-> sinkStateId, accepting |-> FALSE,
                      transitions |-> <<CatchAllWildcard(sinkStateId)>>]
        completedStates ==
            [i \in 1..Len(dfa.states) |->
                IF hasCatchAll(dfa.states[i]) THEN dfa.states[i]
                ELSE [dfa.states[i] EXCEPT
                         !.transitions = Append(@, CatchAllWildcard(sinkStateId))]]
    IN  [states |-> Append(completedStates, sinkState),
         initialState |-> dfa.initialState,
         acceptingStates |-> dfa.acceptingStates,
         isDeterministic |-> TRUE]

AutomatonLimitError(code, limit, actual) ==
    [code |-> code, limit |-> limit, actual |-> actual]

(* The construction state: dfaStates, stateSetMap (the NFA state set of     *)
(* each DFA state, by id), worklist (a stack), processed, the transitions   *)
(* of the state being processed, and the error thrown, if any.              *)

\* getOrCreateState with the limit test weakened from >= to >
getOrCreateStateAboveLimit(d, nfa, nfaStateSet, maxStates) ==
    IF IsDefined(d.error) \/ IsDefined(Lookup(d.stateSetMap, nfaStateSet)) THEN d
    ELSE IF Len(d.dfaStates) > maxStates
    THEN [d EXCEPT !.error =
              Some(AutomatonLimitError("DFA_STATE_LIMIT", maxStates, Len(d.dfaStates) + 1))]
    ELSE [d EXCEPT
              !.stateSetMap = Append(@, nfaStateSet),
              !.dfaStates = Append(@,
                  [id |-> Len(d.dfaStates), transitions |-> <<>>,
                   accepting |-> \E s \in nfaStateSet : State(nfa, s).accepting])]

getOrCreateState(d, nfa, nfaStateSet, maxStates) ==
    IF IsDefined(d.error) \/ IsDefined(Lookup(d.stateSetMap, nfaStateSet)) THEN d
    ELSE IF Len(d.dfaStates) >= maxStates
    THEN [d EXCEPT !.error =
              Some(AutomatonLimitError("DFA_STATE_LIMIT", maxStates, Len(d.dfaStates) + 1))]
    ELSE [d EXCEPT
              !.stateSetMap = Append(@, nfaStateSet),
              !.dfaStates = Append(@,
                  [id |-> Len(d.dfaStates), transitions |-> <<>>,
                   accepting |-> \E s \in nfaStateSet : State(nfa, s).accepting])]

\* records the transition to the state of targetNfaSet and pushes it on the worklist
PushTransition(d, targetNfaSet, targetDfaState, transition) ==
    [d EXCEPT
        !.transitions = Append(@, [transition EXCEPT !.target = targetDfaState]),
        !.worklist = IF targetDfaState \in d.processed THEN @
                     ELSE Append(@, [dfaStateId |-> targetDfaState,
                                     nfaStateSet |-> targetNfaSet])]

AfterGetOrCreate(d, targetNfaSet, transition) ==
    IF IsDefined(d.error) THEN d
    ELSE PushTransition(d, targetNfaSet, Val(Lookup(d.stateSetMap, targetNfaSet)), transition)

AddDfaTransition(d, nfa, targetNfaSet, transition, maxStates) ==
    AfterGetOrCreate(getOrCreateState(d, nfa, targetNfaSet, maxStates),
                     targetNfaSet, transition)

SymbolTransition(symbol) ==
    IF symbol.type = "literal"
    THEN [type |-> "literal", segment |-> symbol.value, target |-> 0]
    ELSE [type |-> "wildcard", pattern |-> symbol.pattern,
          patternSource |-> symbol.patternSource, target |-> 0]

ProcessSymbol(d, nfa, targetNfaSet, symbol, maxStates) ==
    IF targetNfaSet # {}
    THEN AddDfaTransition(d, nfa, targetNfaSet, SymbolTransition(symbol), maxStates)
    ELSE d

RECURSIVE ProcessSymbols(_, _, _, _, _, _)
ProcessSymbols(d, nfa, nfaStateSet, alphabet, i, maxStates) ==
    IF i > Len(alphabet) \/ IsDefined(d.error) THEN d
    ELSE ProcessSymbols(
             ProcessSymbol(d, nfa, computeTransition(nfa, nfaStateSet, alphabet[i]),
                           alphabet[i], maxStates),
             nfa, nfaStateSet, alphabet, i + 1, maxStates)

AnySegmentWildcard ==
    [type |-> "wildcard", pattern |-> RegExp(<<RegexToken("dotplus")>>),
     patternSource |-> <<"*">>, target |-> 0]

ProcessAny(d, nfa, anyTarget, maxStates) ==
    IF anyTarget # {} /\ ~IsDefined(d.error)
    THEN AddDfaTransition(d, nfa, anyTarget, AnySegmentWildcard, maxStates)
    ELSE d

StoreTransitions(d, dfaStateId) ==
    IF IsDefined(d.error) THEN d
    ELSE [d EXCEPT !.dfaStates[dfaStateId + 1].transitions = d.transitions]

\* one iteration of the worklist loop, after the pop and the processed test
ProcessState(d, nfa, item, alphabet, maxStates) ==
    StoreTransitions(
        ProcessAny(
            ProcessSymbols(
                [d EXCEPT !.processed = @ \cup {item.dfaStateId}, !.transitions = <<>>],
                nfa, item.nfaStateSet, alphabet, 1, maxStates),
            nfa, computeAnyTransition(nfa, item.nfaStateSet), maxStates),
        item.dfaStateId)

Pop(d) == [d EXCEPT !.worklist = SubSeq(@, 1, Len(@) - 1)]

RECURSIVE DeterminizeLoop(_, _, _, _)
DeterminizeLoop(d, nfa, alphabet, maxStates) ==
    IF IsDefined(d.error) \/ d.worklist = <<>> THEN d
    ELSE IF d.worklist[Len(d.worklist)].dfaStateId \in d.processed
    THEN DeterminizeLoop(Pop(d), nfa, alphabet, maxStates)
    ELSE DeterminizeLoop(
             ProcessState(Pop(d), nfa, d.worklist[Len(d.worklist)], alphabet, maxStates),
             nfa, alphabet, maxStates)

RECURSIVE AcceptingIdsFrom(_, _)
AcceptingIdsFrom(states, i) ==
    IF i > Len(states) THEN <<>>
    ELSE (IF states[i].accepting THEN <<states[i].id>> ELSE <<>>)
         \o AcceptingIdsFrom(states, i + 1)

AcceptingIds(states) == AcceptingIdsFrom(states, 1)

EmptyConstruction ==
    [dfaStates |-> <<>>, stateSetMap |-> <<>>, worklist |-> <<>>,
     processed |-> {}, transitions |-> <<>>, error |-> None]

\* the initial DFA state and the initial worklist
StartWorklist(d, initialClosure) ==
    IF IsDefined(d.error) THEN d
    ELSE [d EXCEPT !.worklist = <<[dfaStateId |-> 0, nfaStateSet |-> initialClosure]>>]

Start(nfa, initialClosure, maxStates) ==
    StartWorklist(getOrCreateState(EmptyConstruction, nfa, initialClosure, maxStates),
                  initialClosure)

\* what the call returns: the error thrown, or the completed DFA
Outcome(d) ==
    IF IsDefined(d.error) THEN [error |-> d.error]
    ELSE [error |-> None,
          automaton |-> makeComplete(
              [states |-> d.dfaStates,
               initialState |-> 0,
               acceptingStates |-> AcceptingIds(d.dfaStates),
               isDeterministic |-> TRUE])]

\* returns [error |-> <<e>>] when the call throws, [error |-> <<>>, automaton |-> dfa] otherwise
determinize(nfa, maxStates) ==
    IF nfa.isDeterministic THEN [error |-> None, automaton |-> makeComplete(nfa)]
    ELSE Outcome(DeterminizeLoop(
             Start(nfa, epsilonClosure(nfa, {nfa.initialState}), maxStates),
             nfa, collectAlphabet(nfa), maxStates))

\* determinize(nfa) with the default options, where the caller does not catch
determinizeDefault(nfa) == determinize(nfa, DEFAULT_MAX_DFA_STATES).automaton

----------------------------------------------------------------------------
(* Product construction, union and complement *)

createIntersectionPattern(patternA, patternB) ==
    [k |-> "both", patternA |-> patternA, patternB |-> patternB]

Combined(transition, targetA, targetB) ==
    Some([transition |-> transition, targetA |-> targetA, targetB |-> targetB])

handleGlobstarProduct(transA, transB) ==
    IF transA.type = "globstar" /\ transB.type = "globstar"
    THEN Combined([type |-> "wildcard", pattern |-> RegExp(<<RegexToken("dotplus")>>),
                   patternSource |-> <<"*", "*">>, target |-> 0],
                  transA.selfLoop, transB.selfLoop)
    ELSE IF transA.type = "globstar" /\ transB.type = "literal"
    THEN Combined([type |-> "literal", segment |-> transB.segment, target |-> 0],
                  transA.selfLoop, transB.target)
    ELSE IF transA.type = "globstar" /\ transB.type = "wildcard"
    THEN Combined([type |-> "wildcard", pattern |-> transB.pattern,
                   patternSource |-> transB.patternSource, target |-> 0],
                  transA.selfLoop, transB.target)
    ELSE IF transB.type = "globstar" /\ transA.type = "literal"
    THEN Combined([type |-> "literal", segment |-> transA.segment, target |-> 0],
                  transA.target, transB.selfLoop)
    ELSE IF transB.type = "globstar" /\ transA.type = "wildcard"
    THEN Combined([type |-> "wildcard", pattern |-> transA.pattern,
                   patternSource |-> transA.patternSource, target |-> 0],
                  transA.target, transB.selfLoop)
    ELSE None

combineTransitions(transA, transB) ==
    IF transA.type = "epsilon" \/ transB.type = "epsilon" THEN None
    ELSE IF transA.type = "literal" /\ transB.type = "literal"
    THEN IF transA.segment = transB.segment
         THEN Combined([type |-> "literal", segment |-> transA.segment, target |-> 0],
                       transA.target, transB.target)
         ELSE None
    ELSE IF transA.type = "literal" /\ transB.type = "wildcard"
    THEN IF PatternTest(transB.pattern, transA.segment)
         THEN Combined([type |-> "literal", segment |-> transA.segment, target |-> 0],
                       transA.target, transB.target)
         ELSE None
    ELSE IF transA.type = "wildcard" /\ transB.type = "literal"
    THEN IF PatternTest(transA.pattern, transB.segment)
         THEN Combined([type |-> "literal", segment |-> transB.segment, target |-> 0],
                       transA.target, transB.target)
         ELSE None
    ELSE IF transA.type = "wildcard" /\ transB.type = "wildcard"
    THEN Combined([type |-> "wildcard",
                   pattern |-> createIntersectionPattern(transA.pattern, transB.pattern),
                   patternSource |-> <<"(">> \o transA.patternSource \o <<")", "&", "(">>
                                     \o transB.patternSource \o <<")">>,
                   target |-> 0],
                  transA.target, transB.target)
    ELSE handleGlobstarProduct(transA, transB)

\* the inner getOrCreateState of productConstruction
getOrCreatePair(c, autA, autB, sa, sb, mode) ==
    IF IsDefined(Lookup(c.pairToState, <<sa, sb>>)) THEN c
    ELSE LET acceptA == State(autA, sa).accepting
             acceptB == State(autB, sb).accepting
         IN  [c EXCEPT
                 !.pairToState = Append(@, <<sa, sb>>),
                 !.productStates = Append(@,
                     [id |-> Len(c.productStates), transitions |-> <<>>,
                      accepting |-> IF mode = "intersection" THEN acceptA /\ acceptB
                                    ELSE acceptA \/ acceptB])]

\* the pairs (transA, transB) in the order the nested loops visit them
TransitionPairs(stateA, stateB) ==
    Concat([i \in 1..Len(stateA.transitions) |->
               [j \in 1..Len(stateB.transitions) |->
                   <<stateA.transitions[i], stateB.transitions[j]>>]])

\* pushes the combined transition, and its target pair on the worklist
PushCombined(c, cb, targetState) ==
    [c EXCEPT
        !.transitions = Append(@, [cb.transition EXCEPT !.target = targetState]),
        !.worklist = IF <<cb.targetA, cb.targetB>> \in c.processed THEN @
                     ELSE Append(@, [stateId |-> targetState,
                                     sa |-> cb.targetA, sb |-> cb.targetB])]

AfterGetOrCreatePair(c, cb) ==
    PushCombined(c, cb, Val(Lookup(c.pairToState, <<cb.targetA, cb.targetB>>)))

ProcessPair(c, autA, autB, combined, mode) ==
    IF ~IsDefined(combined) THEN c
    ELSE AfterGetOrCreatePair(
             getOrCreatePair(c, autA, autB, Val(combined).targetA, Val(combined).targetB, mode),
             Val(combined))

RECURSIVE ProcessPairs(_, _, _, _, _, _)
ProcessPairs(c, autA, autB, pairs, i, mode) ==
    IF i > Len(pairs) THEN c
    ELSE ProcessPairs(
             ProcessPair(c, autA, autB, combineTransitions(pairs[i][1], pairs[i][2]), mode),
             autA, autB, pairs, i + 1, mode)

StoreProductTransitions(c, stateId) ==
    [c EXCEPT !.productStates[stateId + 1].transitions = c.transitions]

\* one iteration of the worklist loop, after the pop and the processed test
ProcessProductState(c, autA, autB, item, mode) ==
    StoreProductTransitions(
        ProcessPairs(
            [c EXCEPT !.processed = @ \cup {<<item.sa, item.sb>>}, !.transitions = <<>>],
            autA, autB,
            TransitionPairs(State(autA, item.sa), State(autB, item.sb)),
            1, mode),
        item.stateId)

RECURSIVE ProductLoop(_, _, _, _)
ProductLoop(c, autA, autB, mode) ==
    IF c.worklist = <<>> THEN c
    ELSE IF <<c.worklist[Len(c.worklist)].sa, c.worklist[Len(c.worklist)].sb>> \in c.processed
    THEN ProductLoop(Pop(c), autA, autB, mode)
    ELSE ProductLoop(
             ProcessProductState(Pop(c), autA, autB, c.worklist[Len(c.worklist)], mode),
             autA, autB, mode)

EmptyProduct ==
    [pairToState |-> <<>>, productStates |-> <<>>, worklist |-> <<>>,
     processed |-> {}, transitions |-> <<>>]

StartProduct(c, autA, autB) ==
    [c EXCEPT !.worklist = <<[stateId |-> 0, sa |-> autA.initialState,
                              sb |-> autB.initialState]>>]

ProductAutomaton(c, autA, autB) ==
    [states |-> c.productStates,
     initialState |-> 0,
     acceptingStates |-> AcceptingIds(c.productStates),
     isDeterministic |-> autA.isDeterministic /\ autB.isDeterministic]

productConstruction(autA, autB, mode) ==
    ProductAutomaton(
        ProductLoop(
            StartProduct(
                getOrCreatePair(EmptyProduct, autA, autB,
                                autA.initialState, autB.initialState, mode),
                autA, autB),
            autA, autB, mode),
        autA, autB)

intersect(autA, autB) == productConstruction(autA, autB, "intersection")

\* a renumbering that adds the offset twice
renumberTransitionTwice(t, offset) ==
    IF t.type = "globstar"
    THEN [t EXCEPT !.selfLoop = @ + offset + offset, !.exit = @ + offset + offset]
    ELSE [t EXCEPT !.target = @ + offset + offset]

renumberTransition(t, offset) ==
    IF t.type = "globstar"
    THEN [t EXCEPT !.selfLoop = @ + offset, !.exit = @ + offset]
    ELSE [t EXCEPT !.target = @ + offset]

union(autA, autB) ==
    LET bOffset == Len(autA.states)
        newInitialState == Len(autA.states) + Len(autB.states)
        Copy(aut, offset) ==
            [i \in 1..Len(aut.states) |->
                [id |-> aut.states[i].id + offset,
                 accepting |-> aut.states[i].accepting,
                 transitions |->
                     [j \in 1..Len(aut.states[i].transitions) |->
                         renumberTransition(aut.states[i].transitions[j], offset)]]]
    IN  [states |-> Copy(autA, 0) \o Copy(autB, bOffset) \o
                    <<[id |-> newInitialState, accepting |-> FALSE,
                       transitions |->
                           <<[type |-> "epsilon", target |-> autA.initialState],
                             [type |-> "epsilon", target |-> autB.initialState + bOffset]>>]>>,
         initialState |-> newInitialState,
         acceptingStates |->
             autA.acceptingStates \o
             [i \in 1..Len(autB.acceptingStates) |-> autB.acceptingStates[i] + bOffset],
         isDeterministic |-> FALSE]

\* a swap that only turns non-accepting states into accepting ones
FlipToAccepting(states) == [i \in 1..Len(states) |-> [states[i] EXCEPT !.accepting = TRUE]]

Flip(states) == [i \in 1..Len(states) |-> [states[i] EXCEPT !.accepting = ~@]]

\* a complement that swaps the accepting bits and keeps the list it was given
ComplementKeepingList(dfa) ==
    [states |-> Flip(dfa.states),
     initialState |-> dfa.initialState,
     acceptingStates |-> dfa.acceptingStates,
     isDeterministic |-> TRUE]

ComplementOf(dfa) ==
    [states |-> Flip(dfa.states),
     initialState |-> dfa.initialState,
     acceptingStates |-> AcceptingIds(Flip(dfa.states)),
     isDeterministic |-> TRUE]

complement(automaton) ==
    ComplementOf(IF automaton.isDeterministic THEN automaton
                 ELSE determinizeDefault(automaton))

----------------------------------------------------------------------------
(* Pattern algebra.  The source text of a computed pattern is kept as the  *)
(* operation applied to the operands' sources.                              *)

\* a synthetic AST that is a negation when one of its operands is
createSyntheticAstOfNegations(source, operation, operands) ==
    [source |-> source,
     root |-> [type |-> "alternation",
               branches |-> [i \in 1..Len(operands) |-> operands[i].root]],
     isAbsolute |-> \E i \in 1..Len(operands) : operands[i].isAbsolute,
     isNegation |-> \E i \in 1..Len(operands) : operands[i].isNegation]

createSyntheticAst(source, operation, operands) ==
    [source |-> source,
     root |-> [type |-> "alternation",
               branches |-> [i \in 1..Len(operands) |-> operands[i].root]],
     isAbsolute |-> \E i \in 1..Len(operands) : operands[i].isAbsolute,
     isNegation |-> FALSE]

RECURSIVE CommonPrefixFrom(_, _, _)
CommonPrefixFrom(x, y, i) ==
    IF i <= Min2(Len(x), Len(y)) /\ x[i] = y[i]
    THEN <<x[i]>> \o CommonPrefixFrom(x, y, i + 1)
    ELSE <<>>

RECURSIVE CommonSuffixFrom(_, _, _)
CommonSuffixFrom(x, y, i) ==
    IF i < Min2(Len(x), Len(y)) /\ x[Len(x) - i] = y[Len(y) - i]
    THEN CommonSuffixFrom(x, y, i + 1) \o <<x[Len(x) - i]>>
    ELSE <<>>

mergePrefix(x, y, mode) ==
    IF ~IsDefined(x) THEN (IF mode = "intersection" THEN y ELSE None)
    ELSE IF ~IsDefined(y) THEN (IF mode = "intersection" THEN x ELSE None)
    ELSE IF mode = "intersection"
    THEN IF StartsWith(Val(x), Val(y)) THEN x
         ELSE IF StartsWith(Val(y), Val(x)) THEN y
         ELSE IF Len(Val(x)) >= Len(Val(y)) THEN x ELSE y
    ELSE LET common == CommonPrefixFrom(Val(x), Val(y), 1) IN
         IF common = <<>> THEN None ELSE Some(common)

mergeSuffix(x, y, mode) ==
    IF ~IsDefined(x) THEN (IF mode = "intersection" THEN y ELSE None)
    ELSE IF ~IsDefined(y) THEN (IF mode = "intersection" THEN x ELSE None)
    ELSE IF mode = "intersection"
    THEN IF EndsWith(Val(x), Val(y)) THEN x
         ELSE IF EndsWith(Val(y), Val(x)) THEN y
         ELSE IF Len(Val(x)) >= Len(Val(y)) THEN x ELSE y
    ELSE LET common == CommonSuffixFrom(Val(x), Val(y), 0) IN
         IF common = <<>> THEN None ELSE Some(common)

\* mergeMinLength taking the larger bound in both modes
mergeMinLengthAlwaysMax(x, y, mode) ==
    IF ~IsDefined(x) THEN (IF mode = "intersection" THEN y ELSE None)
    ELSE IF ~IsDefined(y) THEN (IF mode = "intersection" THEN x ELSE None)
    ELSE Some(Max2(Val(x), Val(y)))

mergeMinLength(x, y, mode) ==
    IF ~IsDefined(x) THEN (IF mode = "intersection" THEN y ELSE None)
    ELSE IF ~IsDefined(y) THEN (IF mode = "intersection" THEN x ELSE None)
    ELSE IF mode = "intersection" THEN Some(Max2(Val(x), Val(y)))
    ELSE Some(Min2(Val(x), Val(y)))

\* the elements of s, each kept at its first occurrence
RECURSIVE Dedupe(_, _)
Dedupe(s, seen) ==
    IF s = <<>> THEN <<>>
    ELSE IF Head(s) \in seen THEN Dedupe(Tail(s), seen)
    ELSE <<Head(s)>> \o Dedupe(Tail(s), seen \cup {Head(s)})

mergeLiterals(x, y, mode) ==
    IF ~IsDefined(x) THEN (IF mode = "intersection" THEN y ELSE None)
    ELSE IF ~IsDefined(y) THEN (IF mode = "intersection" THEN x ELSE None)
    ELSE IF mode = "intersection"
    THEN LET combined == Dedupe(Val(x) \o Val(y), {}) IN
         IF Len(combined) > 0 THEN Some(combined) ELSE None
    ELSE LET common == SelectSeq(Val(x), LAMBDA lit : lit \in Range(Val(y))) IN
         IF Len(common) > 0 THEN Some(common) ELSE None

mergeQuickRejectForIntersection(x, y) ==
    [requiredPrefix |-> mergePrefix(x.requiredPrefix, y.requiredPrefix, "intersection"),
     requiredSuffix |-> mergeSuffix(x.requiredSuffix, y.requiredSuffix, "intersection"),
     minLength |-> mergeMinLength(x.minLength, y.minLength, "intersection"),
     requiredLiterals |->
         mergeLiterals(x.requiredLiterals, y.requiredLiterals, "intersection")]

mergeQuickRejectForUnion(x, y) ==
    [requiredPrefix |-> mergePrefix(x.requiredPrefix, y.requiredPrefix, "union"),
     requiredSuffix |-> mergeSuffix(x.requiredSuffix, y.requiredSuffix, "union"),
     minLength |-> mergeMinLength(x.minLength, y.minLength, "union"),
     requiredLiterals |-> mergeLiterals(x.requiredLiterals, y.requiredLiterals, "union")]

\* a maxSegments of the intersection that is undefined as soon as one
\* operand's is
computeIntersectionMaxSegmentsOfBoth(x, y) ==
    IF ~IsDefined(x) \/ ~IsDefined(y) THEN None
    ELSE Some(Min2(Val(x), Val(y)))

computeIntersectionMaxSegments(x, y) ==
    IF ~IsDefined(x) THEN y
    ELSE IF ~IsDefined(y) THEN x
    ELSE Some(Min2(Val(x), Val(y)))

\* a maxSegments of the union that takes the smaller bound
computeUnionMaxSegmentsOfSmaller(x, y, aUnbounded, bUnbounded) ==
    IF aUnbounded \/ bUnbounded THEN None
    ELSE IF ~IsDefined(x) \/ ~IsDefined(y) THEN None
    ELSE Some(Min2(Val(x), Val(y)))

computeUnionMaxSegments(x, y, aUnbounded, bUnbounded) ==
    IF aUnbounded \/ bUnbounded THEN None
    ELSE IF ~IsDefined(x) \/ ~IsDefined(y) THEN None
    ELSE Some(Max2(Val(x), Val(y)))

Deterministic(automaton) ==
    IF automaton.isDeterministic THEN automaton ELSE determinizeDefault(automaton)

patternIntersect(pa, pb) ==
    LET source == [operation |-> "intersection", operands |-> <<pa.source, pb.source>>] IN
    [source |-> source,
     ast |-> createSyntheticAst(source, "intersection", <<pa.ast, pb.ast>>),
     quickReject |-> mergeQuickRejectForIntersection(pa.quickReject, pb.quickReject),
     automaton |-> intersect(Deterministic(pa.automaton), Deterministic(pb.automaton)),
     isUnbounded |-> pa.isUnbounded /\ pb.isUnbounded,
     minSegments |-> Max2(pa.minSegments, pb.minSegments),
     maxSegments |-> computeIntersectionMaxSegments(pa.maxSegments, pb.maxSegments)]

patternUnion(pa, pb) ==
    LET source == [operation |-> "union", operands |-> <<pa.source, pb.source>>] IN
    [source |-> source,
     ast |-> createSyntheticAst(source, "union", <<pa.ast, pb.ast>>),
     quickReject |-> mergeQuickRejectForUnion(pa.quickReject, pb.quickReject),
     automaton |-> union(Deterministic(pa.automaton), Deterministic(pb.automaton)),
     isUnbounded |-> pa.isUnbounded \/ pb.isUnbounded,
     minSegments |-> Min2(pa.minSegments, pb.minSegments),
     maxSegments |-> computeUnionMaxSegments(pa.maxSegments, pb.maxSegments,
                                             pa.isUnbounded, pb.isUnbounded)]

patternComplement(pa) ==
    LET source == [operation |-> "complement", operands |-> <<pa.source>>] IN
    [source |-> source,
     ast |-> createSyntheticAst(source, "complement", <<pa.ast>>),
     quickReject |-> EmptyFilter,
     automaton |-> complement(Deterministic(pa.automaton)),
     isUnbounded |-> TRUE,
     minSegments |-> 0,
     maxSegments |-> None]

patternDifference(pa, pb) ==
    LET source == [operation |-> "difference", operands |-> <<pa.source, pb.source>>] IN
    [source |-> source,
     ast |-> createSyntheticAst(source, "difference", <<pa.ast, pb.ast>>),
     quickReject |-> pa.quickReject,
     automaton |-> intersect(Deterministic(pa.automaton),
                             complement(Deterministic(pb.automaton))),
     isUnbounded |-> pa.isUnbounded,
     minSegments |-> pa.minSegments,
     maxSegments |-> pa.maxSegments]

----------------------------------------------------------------------------
(* Emptiness and witnesses *)

HasState(automaton, id) == id + 1 \in DOMAIN automaton.states

\* getTransitionTargets without the exit of a globstar
getTransitionTargetsWithoutExit(transition) ==
    IF transition.type = "globstar" THEN <<transition.selfLoop>>
    ELSE <<transition.target>>

getTransitionTargets(transition) ==
    IF transition.type = "globstar" THEN <<transition.selfLoop, transition.exit>>
    ELSE <<transition.target>>

\* the targets of the transitions, in order, that are not in seen
TargetsOutside(transitions, seen) ==
    SelectSeq(Concat([i \in 1..Len(transitions) |-> getTransitionTargets(transitions[i])]),
              LAMBDA target : target \notin seen)

\* the worklist is a stack: pop takes its last element
RECURSIVE ReachLoop(_, _, _)
ReachLoop(automaton, reachable, worklist) ==
    IF worklist = <<>> THEN reachable
    ELSE IF worklist[Len(worklist)] \in reachable
    THEN ReachLoop(automaton, reachable, SubSeq(worklist, 1, Len(worklist) - 1))
    ELSE IF ~HasState(automaton, worklist[Len(worklist)])
    THEN ReachLoop(automaton, reachable \cup {worklist[Len(worklist)]},
                   SubSeq(worklist, 1, Len(worklist) - 1))
    ELSE ReachLoop(automaton, reachable \cup {worklist[Len(worklist)]},
                   SubSeq(worklist, 1, Len(worklist) - 1)
                       \o TargetsOutside(State(automaton, worklist[Len(worklist)]).transitions,
                                         reachable \cup {worklist[Len(worklist)]}))

findReachableStates(automaton) == ReachLoop(automaton, {}, <<automaton.initialState>>)

isEmpty(automaton) ==
    ~\E i \in 1..Len(automaton.acceptingStates) :
         automaton.acceptingStates[i] \in findReachableStates(automaton)

\* the epsilon targets and globstar exits of the transitions, in order, that
\* are not in closure
EpsilonPushes(transitions, closure) ==
    SelectSeq(Concat([i \in 1..Len(transitions) |->
                  CASE transitions[i].type = "epsilon" -> <<transitions[i].target>>
                    [] transitions[i].type = "globstar" -> <<transitions[i].exit>>
                    [] OTHER -> <<>>]),
              LAMBDA target : target \notin Range(closure))

\* the closure is kept in insertion order, the order a Set is iterated in
RECURSIVE ClosureLoop(_, _, _)
ClosureLoop(automaton, closure, worklist) ==
    IF worklist = <<>> THEN closure
    ELSE IF worklist[Len(worklist)] \in Range(closure)
    THEN ClosureLoop(automaton, closure, SubSeq(worklist, 1, Len(worklist) - 1))
    ELSE IF ~HasState(automaton, worklist[Len(worklist)])
    THEN ClosureLoop(automaton, Append(closure, worklist[Len(worklist)]),
                     SubSeq(worklist, 1, Len(worklist) - 1))
    ELSE ClosureLoop(automaton, Append(closure, worklist[Len(worklist)]),
                     SubSeq(worklist, 1, Len(worklist) - 1)
                         \o EpsilonPushes(State(automaton, worklist[Len(worklist)]).transitions,
                                          Append(closure, worklist[Len(worklist)])))

\* epsilonClosure of the emptiness module, from a single state
epsilonClosureOf(automaton, startState) == ClosureLoop(automaton, <<>>, <<startState>>)

\* String.prototype.includes
Includes(s, sub) == \E pos \in 0..Len(s) : StartsWithAt(s, sub, pos)

SampleText == <<"s", "a", "m", "p", "l", "e">>

\* 'file', 'dir', 'foo', 'bar', 'test', 'src', 'index.ts'
CommonSamples ==
    << <<"f", "i", "l", "e">>, <<"d", "i", "r">>, <<"f", "o", "o">>, <<"b", "a", "r">>,
       <<"t", "e", "s", "t">>, <<"s", "r", "c">>,
       <<"i", "n", "d", "e", "x", ".", "t", "s">> >>

generateMatchingSample(pattern, patternSource) ==
    IF Includes(patternSource, <<".", "t", "s">>) THEN <<"f", "i", "l", "e", ".", "t", "s">>
    ELSE IF Includes(patternSource, <<".", "j", "s">>) THEN <<"f", "i", "l", "e", ".", "j", "s">>
    ELSE IF StartsWith(patternSource, <<"*", ".">>) THEN SampleText \o Tail(patternSource)
    ELSE IF EndsWith(patternSource, <<"*">>)
    THEN SubSeq(patternSource, 1, Len(patternSource) - 1) \o SampleText
    ELSE IF StartsWith(patternSource, <<"*">>) THEN SampleText \o Tail(patternSource)
    ELSE LET passing == SelectSeq(CommonSamples, LAMBDA sample : PatternTest(pattern, sample))
         IN  IF passing # <<>> THEN passing[1]
             ELSE <<"s", "e", "g", "m", "e", "n", "t">>

SearchState(stateId, p) == [stateId |-> stateId, path |-> p]

WithPath(stateIds, p) == [i \in 1..Len(stateIds) |-> SearchState(stateIds[i], p)]

\* what one transition of the state taken from the queue adds to the queue
Enqueued(automaton, transition, p, visited) ==
    CASE transition.type = "epsilon" ->
             IF transition.target \notin visited
             THEN <<SearchState(transition.target, p)>> ELSE <<>>
      [] transition.type = "literal" ->
             IF transition.target \notin visited
             THEN <<SearchState(transition.target, Append(p, transition.segment))>> ELSE <<>>
      [] transition.type = "wildcard" ->
             IF transition.target \notin visited
             THEN <<SearchState(transition.target,
                        Append(p, generateMatchingSample(transition.pattern,
                                                         transition.patternSource)))>>
             ELSE <<>>
      [] transition.type = "globstar" ->
             WithPath(SelectSeq(epsilonClosureOf(automaton, transition.exit),
                                LAMBDA exitState : exitState \notin visited), p)
             \o (IF transition.selfLoop \notin visited
                 THEN <<SearchState(transition.selfLoop, Append(p, <<"x">>))>> ELSE <<>>)

EnqueuedAll(automaton, transitions, p, visited) ==
    Concat([i \in 1..Len(transitions) |-> Enqueued(automaton, transitions[i], p, visited)])

\* the queue is first in, first out
RECURSIVE WitnessLoop(_, _, _)
WitnessLoop(automaton, visited, queue) ==
    IF queue = <<>> THEN None
    ELSE IF Head(queue).stateId \in visited
    THEN WitnessLoop(automaton, visited, Tail(queue))
    ELSE IF ~HasState(automaton, Head(queue).stateId)
    THEN WitnessLoop(automaton, visited \cup {Head(queue).stateId}, Tail(queue))
    ELSE IF State(automaton, Head(queue).stateId).accepting /\ Len(Head(queue).path) > 0
    THEN Some(<<"/">> \o JoinSlash(Head(queue).path))
    ELSE WitnessLoop(automaton, visited \cup {Head(queue).stateId},
             Tail(queue) \o EnqueuedAll(automaton,
                                State(automaton, Head(queue).stateId).transitions,
                                Head(queue).path,
                                visited \cup {Head(queue).stateId}))

\* the search after the initial closure was looked at
SearchFrom(automaton, initialClosure) ==
    IF \E i \in 1..Len(initialClosure) :
           HasState(automaton, initialClosure[i]) /\ State(automaton, initialClosure[i]).accepting
    THEN Some(<<"/">>)
    ELSE WitnessLoop(automaton, {},
             <<SearchState(automaton.initialState, <<>>)>>
                 \o WithPath(SelectSeq(initialClosure, LAMBDA s : s # automaton.initialState),
                             <<>>))

findWitness(automaton) ==
    SearchFrom(automaton, epsilonClosureOf(automaton, automaton.initialState))

\* the calls of countFrom one transition makes, in order
CountCalls(transition, depth) ==
    IF transition.type = "epsilon"
    THEN <<[stateId |-> transition.target, depth |-> depth]>>
    ELSE IF transition.type = "globstar"
    THEN <<[stateId |-> transition.exit, depth |-> depth],
           [stateId |-> transition.selfLoop, depth |-> depth + 1]>>
    ELSE <<[stateId |-> transition.target, depth |-> depth + 1]>>

AllCountCalls(transitions, depth) ==
    Concat([i \in 1..Len(transitions) |-> CountCalls(transitions[i], depth)])

\* if (state.accepting) { total++; counts.set(depth, (counts.get(depth) ?? 0) + 1) }
CountedHere(accepting, depth, count) ==
    IF accepting
    THEN [memo |-> count.memo,
          counts |-> (depth :> (IF depth \in DOMAIN count.counts
                                THEN count.counts[depth] ELSE 0) + 1) @@ count.counts,
          total |-> 1]
    ELSE [count EXCEPT !.total = 0]

\* total += countFrom(...)
Added(total, returned) == [returned EXCEPT !.total = total + @]

\* memo.set(key, total)
Memoized(stateId, depth, count) ==
    [count EXCEPT !.memo = (<<stateId, depth>> :> count.total) @@ @]

\* countFrom with the memo and the counts it reads and writes; total is the
\* number the call returns
RECURSIVE countFrom(_, _, _, _, _)
RECURSIVE CountLoop(_, _, _, _, _)
countFrom(automaton, maxDepth, stateId, depth, count) ==
    IF depth > maxDepth THEN [count EXCEPT !.total = 0]
    ELSE IF <<stateId, depth>> \in DOMAIN count.memo
    THEN [count EXCEPT !.total = count.memo[<<stateId, depth>>]]
    ELSE IF ~HasState(automaton, stateId) THEN [count EXCEPT !.total = 0]
    ELSE Memoized(stateId, depth,
             CountLoop(automaton, maxDepth,
                       AllCountCalls(State(automaton, stateId).transitions, depth), 1,
                       CountedHere(State(automaton, stateId).accepting, depth, count)))

\* the loop over the transitions, from the i-th call on; count.total is the
\* total so far
CountLoop(automaton, maxDepth, calls, i, count) ==
    IF i > Len(calls) THEN count
    ELSE CountLoop(automaton, maxDepth, calls, i + 1,
             Added(count.total,
                   countFrom(automaton, maxDepth, calls[i].stateId, calls[i].depth, count)))

\* the Map countPaths returns, as a function from the depths it holds
countPaths(automaton, maxDepth) ==
    countFrom(automaton, maxDepth, automaton.initialState, 0,
              [memo |-> <<>>, counts |-> <<>>, total |-> 0]).counts

----------------------------------------------------------------------------
(* Containment.  The explanation of a result, which the relationship and   *)
(* the counterexamples do not depend on, is left out.                       *)

Digit(n) == <<"0", "1", "2", "3", "4", "5", "6", "7", "8", "9">>[n + 1]

\* `${n}` for a number n >= 0
RECURSIVE NumberText(_)
NumberText(n) == IF n < 10 THEN <<Digit(n)>> ELSE Append(NumberText(n \div 10), Digit(n % 10))

\* Array.prototype.slice(0, n)
Take(s, n) == SubSeq(s, 1, Min2(Len(s), n))

generateSegmentValue(segment, variation) ==
    CASE segment.type = "literal" -> segment.value
      [] segment.type = "globstar" -> <<"s", "u", "b", "d", "i", "r">>
      [] segment.type = "wildcard" ->
             IF EndsWith(segment.pattern, <<".", "t", "s">>)
             THEN <<"f", "i", "l", "e">> \o NumberText(variation) \o <<".", "t", "s">>
             ELSE IF EndsWith(segment.pattern, <<".", "j", "s">>)
             THEN <<"f", "i", "l", "e">> \o NumberText(variation) \o <<".", "j", "s">>
             ELSE IF StartsWith(segment.pattern, <<"t", "e", "s", "t", "-">>)
             THEN <<"t", "e", "s", "t", "-">> \o NumberText(variation)
             ELSE <<"m", "a", "t", "c", "h">> \o NumberText(variation)

generateBasePath(segments) ==
    <<"/">> \o JoinSlash([i \in 1..Len(segments) |-> generateSegmentValue(segments[i], 0)])

\* the parts generatePathVariation collects from segment i on
RECURSIVE VariationParts(_, _, _, _)
VariationParts(segments, i, variationIndex, usedVariation) ==
    IF i > Len(segments) THEN <<>>
    ELSE IF segments[i].type = "globstar" /\ ~usedVariation
    THEN [j \in 1..(1 + (variationIndex % 3)) |-> <<"d", "i", "r">> \o NumberText(j - 1)]
         \o VariationParts(segments, i + 1, variationIndex, TRUE)
    ELSE <<generateSegmentValue(segments[i], IF usedVariation THEN 0 ELSE variationIndex)>>
         \o VariationParts(segments, i + 1, variationIndex, usedVariation)

generatePathVariation(segments, variationIndex) ==
    <<"/">> \o JoinSlash(VariationParts(segments, 1, variationIndex, FALSE))

AppendNew(paths, p) == IF p \in Range(paths) THEN paths ELSE Append(paths, p)

RECURSIVE VariationsFrom(_, _, _, _)
VariationsFrom(segments, i, count, paths) ==
    IF ~(i < count /\ Len(paths) < count) THEN paths
    ELSE VariationsFrom(segments, i + 1, count,
                        AppendNew(paths, generatePathVariation(segments, i)))

generatePathsFromSequence(sequence, count) ==
    VariationsFrom(sequence.segments, 1, count, <<generateBasePath(sequence.segments)>>)

\* Math.ceil(count / n)
CeilDiv(count, n) == (count + n - 1) \div n

generateTestPaths(pattern, count) ==
    IF pattern.ast.root.type = "alternation"
    THEN Take(Concat([i \in 1..Len(pattern.ast.root.branches) |->
                  generatePathsFromSequence(pattern.ast.root.branches[i],
                      CeilDiv(count, Len(pattern.ast.root.branches)))]),
              count)
    ELSE Take(generatePathsFromSequence(pattern.ast.root, count), count)

\* the segments generateDeepPath collects from segment i on
RECURSIVE DeepSegments(_, _, _, _)
DeepSegments(patternSegments, i, depth, segments) ==
    IF i > Len(patternSegments) THEN segments
    ELSE IF patternSegments[i].type = "globstar"
    THEN DeepSegments(patternSegments, i + 1, depth,
             segments \o [j \in 1..(depth - 1 - Len(segments)) |-> <<"d", "e", "e", "p">>])
    ELSE DeepSegments(patternSegments, i + 1, depth,
             Append(segments, generateSegmentValue(patternSegments[i], 0)))

\* while (segments.length < depth) segments.push('extra')
PadToDepth(segments, depth) ==
    segments \o [j \in 1..(depth - Len(segments)) |-> <<"e", "x", "t", "r", "a">>]

generateDeepPath(pattern, depth) ==
    <<"/">> \o JoinSlash(PadToDepth(
        IF pattern.ast.root.type = "sequence"
        THEN DeepSegments(pattern.ast.root.segments, 1, depth, <<>>)
        ELSE <<>>,
        depth))

\* the outcome of one direction's loop over the test paths
PathsCheck(paths, pattern) ==
    [subset |-> \A i \in 1..Len(paths) : matchPath(paths[i], pattern),
     counterexample |-> Take(SelectSeq(paths, LAMBDA p : ~matchPath(p, pattern)), 1)]

\* a structural check that stops after the loop over the test paths
DepthAnalysisSkipped(checked, x, y) == checked

\* the depth analysis of one direction: x can go deeper than y allows
DepthAnalysis(checked, x, y) ==
    IF checked.subset /\ x.isUnbounded /\ ~y.isUnbounded
    THEN [subset |-> FALSE,
          counterexample |->
              Some(generateDeepPath(x,
                  (IF IsDefined(y.maxSegments) THEN Val(y.maxSegments) ELSE 0) + 1))]
    ELSE checked

\* a structural result that reports the forward direction twice
StructuralOfForward(forward, backward) ==
    [isSubset |-> forward.subset, isSuperset |-> forward.subset,
     counterexample |-> forward.counterexample,
     reverseCounterexample |-> forward.counterexample]

Structural(forward, backward) ==
    [isSubset |-> forward.subset, isSuperset |-> backward.subset,
     counterexample |-> forward.counterexample,
     reverseCounterexample |-> backward.counterexample]

checkContainmentStructural(x, y) ==
    Structural(DepthAnalysis(PathsCheck(generateTestPaths(x, 20), y), x, y),
               DepthAnalysis(PathsCheck(generateTestPaths(y, 20), x), y, x))

\* requiredPrefix?.replace(/^\//, '') ?? ''
WithoutLeadingSlash(text) ==
    IF ~IsDefined(text) THEN <<>>
    ELSE IF StartsWith(Val(text), <<"/">>) THEN Tail(Val(text)) ELSE Val(text)

\* String.prototype.lastIndexOf('.'), 0-based, -1 when there is none
LastDot(s) ==
    IF \E i \in 1..Len(s) : s[i] = "."
    THEN (CHOOSE i \in 1..Len(s) : s[i] = "." /\ \A j \in (i + 1)..Len(s) : s[j] # ".") - 1
    ELSE -1

extractFileInfo(suffix) ==
    IF suffix = <<>> THEN [basename |-> <<>>, ext |-> <<>>]
    ELSE IF LastDot(suffix) > 0
    THEN [basename |-> SubSeq(suffix, 1, LastDot(suffix)),
          ext |-> SubSeq(suffix, LastDot(suffix) + 1, Len(suffix))]
    ELSE [basename |-> suffix, ext |-> <<>>]

\* Array.prototype.filter(Boolean) on strings
NonEmpty(texts) == SelectSeq(texts, LAMBDA text : text # <<>>)

OrElse(text, default) == IF text # <<>> THEN text ELSE default

\* the paths of one (prefix, basename, extension) round
Candidate(prefix, filename) ==
    IF prefix # <<>>
    THEN << <<"/">> \o prefix \o <<"/">> \o filename,
            <<"/">> \o prefix \o <<"/", "s", "u", "b", "/">> \o filename >>
    ELSE << <<"/">> \o filename >>

Candidates(prefixes, basenames, extensions) ==
    Concat([i \in 1..Len(prefixes) |->
        Concat([j \in 1..Len(basenames) |->
            Concat([k \in 1..Len(extensions) |->
                Candidate(prefixes[i], basenames[j] \o extensions[k])])])])

CombinedPaths(aPrefix, bPrefix, suffixInfoA, suffixInfoB, count) ==
    Take(Dedupe(Candidates(
                    IF NonEmpty(<<aPrefix, bPrefix>>) = <<>> THEN << <<>> >>
                    ELSE NonEmpty(<<aPrefix, bPrefix>>),
                    << OrElse(suffixInfoA.basename, <<"i", "n", "d", "e", "x">>),
                       OrElse(suffixInfoB.basename, <<"i", "n", "d", "e", "x">>),
                       <<"f", "i", "l", "e">>, <<"t", "e", "s", "t">> >>,
                    NonEmpty(<<suffixInfoA.ext, suffixInfoB.ext,
                               <<".", "t", "s">>, <<".", "j", "s">> >>)),
                {}),
         count)

generateCombinedPaths(x, y, count) ==
    CombinedPaths(WithoutLeadingSlash(x.quickReject.requiredPrefix),
                  WithoutLeadingSlash(y.quickReject.requiredPrefix),
                  extractFileInfo(WithoutLeadingSlash(x.quickReject.requiredSuffix)),
                  extractFileInfo(WithoutLeadingSlash(y.quickReject.requiredSuffix)),
                  count)

\* an overlap check that tries only the combined paths
checkHasOverlapOfCombinedPaths(x, y) ==
    \E p \in Range(generateCombinedPaths(x, y, 10)) : matchPath(p, x) /\ matchPath(p, y)

checkHasOverlap(x, y) ==
    \/ \E p \in Range(generateTestPaths(x, 10)) : matchPath(p, y)
    \/ \E p \in Range(generateTestPaths(y, 10)) : matchPath(p, x)
    \/ \E p \in Range(generateCombinedPaths(x, y, 10)) : matchPath(p, x) /\ matchPath(p, y)

\* the relationship read off the booleans, in the order the code tests them
\* a relationship that does not look at the overlap
RelationshipWithoutOverlap(isSubset, isSuperset, hasOverlap) ==
    IF isSubset /\ isSuperset THEN "equal"
    ELSE IF isSubset THEN "subset"
    ELSE IF isSuperset THEN "superset"
    ELSE "disjoint"

Relationship(isSubset, isSuperset, hasOverlap) ==
    IF isSubset /\ isSuperset THEN "equal"
    ELSE IF isSubset THEN "subset"
    ELSE IF isSuperset THEN "superset"
    ELSE IF ~hasOverlap THEN "disjoint"
    ELSE "overlapping"

ContainmentResult(x, y, structural, hasOverlap) ==
    [patternA |-> x.source,
     patternB |-> y.source,
     isSubset |-> structural.isSubset,
     isSuperset |-> structural.isSuperset,
     isEqual |-> structural.isSubset /\ structural.isSuperset,
     hasOverlap |-> hasOverlap,
     relationship |-> Relationship(structural.isSubset, structural.isSuperset, hasOverlap),
     counterexample |-> structural.counterexample,
     reverseCounterexample |-> structural.reverseCounterexample]

checkContainment(x, y) ==
    ContainmentResult(x, y, checkContainmentStructural(x, y), checkHasOverlap(x, y))

areEquivalent(x, y) == checkContainment(x, y).isEqual

----------------------------------------------------------------------------
(* Inputs of the model *)

SeqsUpTo(S, n) == UNION {[1..k -> S] : k \in 0..n}

SegmentSources == {<<"a">>, <<"b">>, <<"*", "*">>, <<"*">>, <<"a", "*">>}

PathSegments == {<<"a">>, <<"b">>, <<"a", "b">>}

Source(branches) == [branches |-> branches, negated |-> FALSE, absolute |-> FALSE]

Branches == [1..MaxBranchSegments -> SegmentSources]

\* one order for each pair of different branches
BranchPairs ==
    {CHOOSE pair \in {<<x, y>>, <<y, x>>} : TRUE : x, y \in Branches} \ {<<x, x>> : x \in Branches}

\* a/b, **/a, a*/*, ... and the brace patterns {a,b}, {a,**}, ...
PatternSources ==
    {Source(<<segs>>) : segs \in SeqsUpTo(SegmentSources, MaxPatternSegments)}
    \cup {Source(pair) : pair \in BranchPairs}

Paths == {segmentsToPath(segs) : segs \in SeqsUpTo(PathSegments, MaxPathSegments)}

MaxStatesOptions == 0..MaxStatesOption \cup {DEFAULT_MAX_DFA_STATES}

Optional(S) == {None} \cup {Some(v) : v \in S}

\* "/", "/a", "/b", "/ab": texts a filter can require at the start or the end
FilterTexts == {segmentsToPath(segs) : segs \in SeqsUpTo(PathSegments, MaxFilterSegments)}

\* any filter, not only those buildQuickRejectFilter makes
Filters ==
    [requiredPrefix : Optional(FilterTexts),
     requiredSuffix : Optional(FilterTexts),
     requiredLiterals : Optional({<<<<"a">>>>, <<<<"b">>>>, <<<<"a">>, <<"b">>>>}),
     minLength : Optional(2..MaxMinLength)]

----------------------------------------------------------------------------
(* The session: compile one or two patterns, determinize, combine, match *)

Init ==
    /\ srcA = None /\ srcB = None
    /\ a = None /\ b = None
    /\ op = <<>> /\ result = <<>>
    /\ det = None
    /\ path = None /\ verdict = None
    /\ emptiness = None /\ containment = None
    /\ fa = None /\ fb = None /\ merged = None
    /\ counted = None

\* nothing has ended the session yet
Idle == path = None /\ emptiness = None /\ containment = None /\ counted = None

\* compilePattern(parsePattern(src)), for pattern a first and pattern b second
Compile(src) ==
    /\ Idle /\ det = None /\ op = <<>>
    /\ ~IsDefined(b)
    /\ IF ~IsDefined(a)
       THEN /\ srcA' = Some(src)
            /\ a' = Some(compilePattern(parsePattern(src)))
            /\ UNCHANGED <<srcB, b>>
       ELSE /\ srcB' = Some(src)
            /\ b' = Some(compilePattern(parsePattern(src)))
            /\ UNCHANGED <<srcA, a>>
    /\ UNCHANGED <<op, result, det, path, verdict, emptiness, containment, filterVars, countVars>>

\* determinize(automaton, { maxStates }) on pattern a's automaton, or on the
\* automaton the previous call returned
Determinize(maxStates) ==
    /\ Idle
    /\ IsDefined(a) /\ ~IsDefined(b)
    /\ \/ ~IsDefined(det)
       \/ IsDefined(det) /\ ~IsDefined(Val(det).outcome.error)
                         /\ ~Val(det).input.isDeterministic
    /\ LET input == IF IsDefined(det) THEN Val(det).outcome.automaton
                    ELSE Val(a).automaton
       IN  det' = Some([input |-> input, maxStates |-> maxStates,
                        outcome |-> determinize(input, maxStates)])
    /\ UNCHANGED <<srcA, srcB, a, b, op, result, path, verdict, emptiness, containment, filterVars, countVars>>

Intersect ==
    /\ Idle
    /\ IsDefined(a) /\ IsDefined(b)
    /\ op \in {<<>>, <<"difference", "difference">>}
    /\ op' = Append(op, "intersect")
    /\ result' = Append(result, patternIntersect(Val(a), Val(b)))
    /\ UNCHANGED <<srcA, srcB, a, b, det, path, verdict, emptiness, containment, filterVars, countVars>>

Union ==
    /\ Idle
    /\ IsDefined(a) /\ IsDefined(b)
    /\ op = <<>>
    /\ op' = Append(op, "union")
    /\ result' = Append(result, patternUnion(Val(a), Val(b)))
    /\ UNCHANGED <<srcA, srcB, a, b, det, path, verdict, emptiness, containment, filterVars, countVars>>

Complement ==
    /\ Idle
    /\ IsDefined(a) /\ ~IsDefined(b) /\ ~IsDefined(det)
    /\ op = <<>>
    /\ op' = Append(op, "complement")
    /\ result' = Append(result, patternComplement(Val(a)))
    /\ UNCHANGED <<srcA, srcB, a, b, det, path, verdict, emptiness, containment, filterVars, countVars>>

\* patternDifference(a, b), and after it patternDifference(a, that result)
Difference ==
    /\ Idle
    /\ IsDefined(a) /\ IsDefined(b)
    /\ op \in {<<>>, <<"difference">>}
    /\ op' = Append(op, "difference")
    /\ result' = Append(result,
                     patternDifference(Val(a),
                         IF op = <<>> THEN Val(b) ELSE result[Len(result)]))
    /\ UNCHANGED <<srcA, srcB, a, b, det, path, verdict, emptiness, containment, filterVars, countVars>>

\* every matcher on one path: matchPath on a, b and the results, matchPathDirect
\* on a's AST, the quick-reject filter alone, and the bare automata
Match(p) ==
    /\ Idle
    /\ IsDefined(a)
    /\ path' = Some(p)
    /\ verdict' =
           Some([a |-> matchPath(p, Val(a)),
                 b |-> IF IsDefined(b) THEN Some(matchPath(p, Val(b))) ELSE None,
                 results |-> [i \in 1..Len(result) |-> matchPath(p, result[i])],
                 direct |-> matchPathDirect(p, Val(a).ast),
                 quickReject |-> applyQuickReject(p, Val(a).quickReject),
                 automaton |-> simulateNFA(Val(a).automaton, pathToSegments(p)),
                 det |-> IF IsDefined(det) /\ ~IsDefined(Val(det).outcome.error)
                         THEN Some(simulateNFA(Val(det).outcome.automaton,
                                               pathToSegments(p)))
                         ELSE None])
    /\ UNCHANGED <<srcA, srcB, a, b, op, result, det, emptiness, containment, filterVars, countVars>>

\* the automaton the session made last
LatestAutomaton ==
    IF result # <<>> THEN result[Len(result)].automaton
    ELSE IF IsDefined(det) /\ ~IsDefined(Val(det).outcome.error)
    THEN Val(det).outcome.automaton
    ELSE Val(a).automaton

\* isEmpty and findWitness on the latest automaton
FindWitness ==
    /\ Idle
    /\ IsDefined(a)
    /\ emptiness' = Some([automaton |-> LatestAutomaton,
                          isEmpty |-> isEmpty(LatestAutomaton),
                          witness |-> findWitness(LatestAutomaton)])
    /\ UNCHANGED <<srcA, srcB, a, b, op, result, det, path, verdict, containment, filterVars, countVars>>

Next ==
    \/ \E src \in PatternSources : Compile(src)
    \/ \E maxStates \in MaxStatesOptions : Determinize(maxStates)
    \/ Intersect
    \/ Union
    \/ Complement
    \/ Difference
    \/ \E p \in Paths : Match(p)
    \/ FindWitness

Spec == Init /\ [][Next]_vars

----------------------------------------------------------------------------
(* Containment of two compiled patterns *)

CheckContainment ==
    /\ Idle
    /\ IsDefined(a) /\ IsDefined(b)
    /\ op = <<>>
    /\ containment' = Some(checkContainment(Val(a), Val(b)))
    /\ UNCHANGED <<srcA, srcB, a, b, op, result, det, path, verdict, emptiness, filterVars, countVars>>

\* {*,*/*,*/*/*}: a pattern of bounded depth that matches every test path
\* generated for **
WildcardsToDepthThree ==
    Source(<< <<<<"*">>>>, <<<<"*">>, <<"*">>>>, <<<<"*">>, <<"*">>, <<"*">>>> >>)

ContainmentSources == PatternSources \cup {WildcardsToDepthThree}

ContainmentNext ==
    \/ \E src \in ContainmentSources : Compile(src)
    \/ CheckContainment

ContainmentSpec == Init /\ [][ContainmentNext]_vars

----------------------------------------------------------------------------
(* Merging two quick-reject filters, on any two filters *)

FilterInit ==
    /\ srcA = None /\ srcB = None
    /\ a = None /\ b = None
    /\ op = <<>> /\ result = <<>>
    /\ det = None
    /\ path = None /\ verdict = None
    /\ emptiness = None /\ containment = None
    /\ fa \in Filters /\ fb \in Filters
    /\ merged = None
    /\ counted = None

MergeForIntersection ==
    /\ merged = None
    /\ merged' = Some([mode |-> "intersection",
                       filter |-> mergeQuickRejectForIntersection(fa, fb)])
    /\ UNCHANGED <<sessionVars, fa, fb, countVars>>

MergeForUnion ==
    /\ merged = None
    /\ merged' = Some([mode |-> "union",
                       filter |-> mergeQuickRejectForUnion(fa, fb)])
    /\ UNCHANGED <<sessionVars, fa, fb, countVars>>

FilterNext == MergeForIntersection \/ MergeForUnion

FilterSpec == FilterInit /\ [][FilterNext]_vars

----------------------------------------------------------------------------
(* Counting the accepting paths of a built automaton *)

CountPaths(maxDepth) ==
    /\ Idle
    /\ IsDefined(a) /\ ~IsDefined(b)
    /\ det = None /\ op = <<>>
    /\ counted' = Some([maxDepth |-> maxDepth,
                        counts |-> countPaths(Val(a).automaton, maxDepth)])
    /\ UNCHANGED <<sessionVars, filterVars>>

CountNext ==
    \/ \E src \in PatternSources : Compile(src)
    \/ \E maxDepth \in 0..MaxCountDepth : CountPaths(maxDepth)

CountSpec == Init /\ [][CountNext]_vars

----------------------------------------------------------------------------
(* The algebra on patterns compiled from negated sources ('!p') *)

NegationSources ==
    {[branches |-> <<segs>>, negated |-> negated, absolute |-> FALSE] :
        segs \in SeqsUpTo(SegmentSources, MaxNegatedSegments), negated \in BOOLEAN}

NegationNext ==
    \/ \E src \in NegationSources : Compile(src)
    \/ Intersect
    \/ Union
    \/ Complement
    \/ Difference
    \/ \E p \in Paths : Match(p)

NegationSpec == Init /\ [][NegationNext]_vars

----------------------------------------------------------------------------
(* Properties *)

Matched == IsDefined(path)

\* the verdict of the i-th algebra result on the matched path
ResultVerdict(i) == Val(verdict).results[i]

\* C1: on every path, the intersection of a and b matches exactly when a and
\* b both match.
C1_IntersectMatchesBoth ==
    \A i \in 1..Len(op) :
        (Matched /\ op[i] = "intersect")
            => (ResultVerdict(i) <=> (Val(verdict).a /\ Val(Val(verdict).b)))

\* the literal segments of a pattern's AST
LiteralAlphabet(pattern) ==
    LET sequences == IF pattern.root.type = "sequence" THEN <<pattern.root>>
                     ELSE pattern.root.branches
    IN  UNION {{seg.value : seg \in {t \in Range(sequences[i].segments) : t.type = "literal"}} :
                   i \in 1..Len(sequences)}

\* the path uses segments of the pattern's literal alphabet and at most one other
OverAlphabetPlusFresh(p, pattern) ==
    Cardinality(Range(pathToSegments(p)) \ LiteralAlphabet(pattern)) <= 1

\* C2: on every path over a's literal alphabet and one fresh segment, the
\* complement of a matches exactly when a does not match.
C2_ComplementMatchesRest ==
    (Matched /\ op = <<"complement">> /\ OverAlphabetPlusFresh(Val(path), Val(a).ast))
        => (ResultVerdict(1) <=> ~Val(verdict).a)

\* C3: on every path, the union of a and b matches exactly when a or b matches.
C3_UnionMatchesEither ==
    (Matched /\ op = <<"union">>)
        => (ResultVerdict(1) <=> (Val(verdict).a \/ Val(Val(verdict).b)))

\* C4: on every path, the difference of a and b matches exactly when a matches
\* and b does not.
C4_DifferenceMatchesAOnly ==
    (Matched /\ Len(op) >= 1 /\ op[1] = "difference")
        => (ResultVerdict(1) <=> (Val(verdict).a /\ ~Val(Val(verdict).b)))

\* the call determinized the automaton buildAutomaton made for pattern a
DeterminizedBuilt == IsDefined(det) /\ Val(det).input = Val(a).automaton

Returned == IsDefined(det) /\ ~IsDefined(Val(det).outcome.error)

\* C5: the automaton determinize returns for a built NFA accepts a segment
\* sequence exactly when the NFA accepts it.
C5_DeterminizePreservesLanguage ==
    (Matched /\ DeterminizedBuilt /\ Returned)
        => (Val(Val(verdict).det) <=> Val(verdict).automaton)

\* C6: on every path, matchPath on the compiled pattern and matchPathDirect on
\* its AST give the same verdict.
C6_CompiledEqualsDirect ==
    Matched => (Val(verdict).a <=> Val(verdict).direct)

\* C7: on every path, patternIntersect(a, b) and
\* patternDifference(a, patternDifference(a, b)) give the same verdict.
C7_IntersectIsDoubleDifference ==
    (Matched /\ op = <<"difference", "difference", "intersect">>)
        => (ResultVerdict(3) <=> ResultVerdict(2))

\* the subset states one symbol of the alphabet, or any segment, leads to
SubsetSuccessors(nfa, subset) ==
    ({computeTransition(nfa, subset, symbol) : symbol \in Range(collectAlphabet(nfa))}
         \cup {computeAnyTransition(nfa, subset)}) \ {{}}

RECURSIVE SubsetsFrom(_, _, _)
SubsetsFrom(nfa, seen, frontier) ==
    IF frontier = {} THEN seen
    ELSE SubsetsFrom(nfa, seen \cup frontier,
             UNION {SubsetSuccessors(nfa, subset) : subset \in frontier}
                 \ (seen \cup frontier))

\* the subset states the subset construction of nfa reaches
ReachableSubsets(nfa) ==
    SubsetsFrom(nfa, {}, {epsilonClosure(nfa, {nfa.initialState})})

\* C8: determinize with maxStates N on a non-deterministic input throws
\* DFA_STATE_LIMIT, with limit N and actual above N and without an automaton,
\* when the subset construction reaches more than N subset states, and does not
\* throw when it reaches N or fewer.
C8_LimitErrorIffTooManySubsets ==
    (IsDefined(det) /\ ~Val(det).input.isDeterministic)
        => LET call == Val(det)
               needed == Cardinality(ReachableSubsets(call.input))
           IN  /\ IsDefined(call.outcome.error) <=> needed > call.maxStates
               /\ IsDefined(call.outcome.error)
                      => /\ Val(call.outcome.error).code = "DFA_STATE_LIMIT"
                         /\ Val(call.outcome.error).limit = call.maxStates
                         /\ Val(call.outcome.error).actual > call.maxStates
                         /\ "automaton" \notin DOMAIN call.outcome

\* a call that throws although one state more would have been enough
C8_ThrowsOneOverLimit ==
    /\ IsDefined(det) /\ ~Val(det).input.isDeterministic
    /\ IsDefined(Val(det).outcome.error)
    /\ Val(det).maxStates >= 1
    /\ Cardinality(ReachableSubsets(Val(det).input)) = Val(det).maxStates + 1

\* C9: every automaton determinize returns under maxStates N has at most N
\* states, whether the input was deterministic or not.
C9_ReturnedWithinLimit ==
    Returned => Len(Val(det).outcome.automaton.states) <= Val(det).maxStates

\* C10: a path the automaton of a pattern accepts passes the pattern's
\* quick-reject filter.
C10_QuickRejectKeepsMatches ==
    (Matched /\ Val(verdict).automaton) => Val(verdict).quickReject

\* C11: every path that passes both fa and fb passes the filter merged for
\* intersection, and every path that passes fa or fb passes the filter merged
\* for union.
C11_MergedFilterKeepsPaths ==
    IsDefined(merged) =>
        \A p \in Paths :
            LET passesA == applyQuickReject(p, fa)
                passesB == applyQuickReject(p, fb)
                passesMerged == applyQuickReject(p, Val(merged).filter)
            IN  /\ (Val(merged).mode = "intersection" /\ passesA /\ passesB) => passesMerged
                /\ (Val(merged).mode = "union" /\ (passesA \/ passesB)) => passesMerged

\* a union of two filters with every field set, and a path only fa lets through
C11_UnionKeepsPathOfOneFilter ==
    /\ IsDefined(merged) /\ Val(merged).mode = "union"
    /\ \A f \in {fa, fb} :
           /\ IsDefined(f.requiredPrefix) /\ IsDefined(f.requiredSuffix)
           /\ IsDefined(f.requiredLiterals) /\ IsDefined(f.minLength)
    /\ fa.requiredPrefix # fb.requiredPrefix /\ fa.minLength # fb.minLength
    /\ \E p \in Paths :
           /\ applyQuickReject(p, fa) /\ ~applyQuickReject(p, fb)
           /\ applyQuickReject(p, Val(merged).filter)

GlobstarSource == <<"*", "*">>

\* source q is source p with one ** segment deleted
DeletesGlobstar(p, q) ==
    /\ Len(p.branches) = 1 /\ Len(q.branches) = 1
    /\ \E i \in 1..Len(p.branches[1]) :
           /\ p.branches[1][i] = GlobstarSource
           /\ q.branches[1] = SubSeq(p.branches[1], 1, i - 1)
                                  \o SubSeq(p.branches[1], i + 1, Len(p.branches[1]))

\* C12: when pattern a is pattern b with one ** segment deleted, every path
\* matchPath accepts for a is accepted for b.
C12_GlobstarMatchesZeroSegments ==
    (Matched /\ IsDefined(b) /\ DeletesGlobstar(Val(srcB), Val(srcA)) /\ Val(verdict).a)
        => Val(Val(verdict).b)

\* the source is one sequence of segments and its last segment is **
EndsWithGlobstar(p) ==
    /\ Len(p.branches) = 1 /\ Len(p.branches[1]) >= 1
    /\ p.branches[1][Len(p.branches[1])] = GlobstarSource

NonGlobstarSegments(p) ==
    Len(SelectSeq(p.branches[1], LAMBDA seg : seg # GlobstarSource))

\* C13: when the last segment of pattern a is **, matchPath rejects every path
\* with exactly as many segments as a has segments other than **.
C13_TrailingGlobstarNeedsSegment ==
    (Matched /\ EndsWithGlobstar(Val(srcA))
        /\ Len(pathToSegments(Val(path))) = NonGlobstarSegments(Val(srcA)))
        => ~Val(verdict).a

\* C14: when isEmpty is true of an automaton, findWitness returns undefined
\* for it.
C14_EmptyHasNoWitness ==
    (IsDefined(emptiness) /\ Val(emptiness).isEmpty) => ~IsDefined(Val(emptiness).witness)

\* an intersection that is empty and has no witness
C14_EmptyIntersection ==
    /\ IsDefined(emptiness) /\ Val(emptiness).isEmpty
    /\ op = <<"intersect">>
    /\ Len(Val(emptiness).automaton.states) > 1
    /\ ~IsDefined(Val(emptiness).witness)

\* C15: the automaton accepts the segments of the path findWitness returns
\* for it.
C15_WitnessIsAccepted ==
    (IsDefined(emptiness) /\ IsDefined(Val(emptiness).witness))
        => simulateNFA(Val(emptiness).automaton,
                       pathToSegments(Val(Val(emptiness).witness)))

Checked == IsDefined(containment)

\* C16: a counterexample of checkContainment(a, b) matches a and not b, and
\* a reverseCounterexample matches b and not a.
C16_CounterexamplesProve ==
    Checked =>
        /\ IsDefined(Val(containment).counterexample)
               => /\ matchPath(Val(Val(containment).counterexample), Val(a))
                  /\ ~matchPath(Val(Val(containment).counterexample), Val(b))
        /\ IsDefined(Val(containment).reverseCounterexample)
               => /\ matchPath(Val(Val(containment).reverseCounterexample), Val(b))
                  /\ ~matchPath(Val(Val(containment).reverseCounterexample), Val(a))

\* C17: checkContainment of a pattern with itself has isSubset, isSuperset and
\* isEqual true and relationship 'equal', and areEquivalent returns true.
C17_ContainmentIsReflexive ==
    (Checked /\ srcA = srcB) =>
        /\ Val(containment).isSubset /\ Val(containment).isSuperset
        /\ Val(containment).isEqual
        /\ Val(containment).relationship = "equal"
        /\ areEquivalent(Val(a), Val(b))

\* C18: when a is unbounded and b is not, isSubset is false and a
\* counterexample is present; when b is unbounded and a is not, isSuperset is
\* false and a reverseCounterexample is present.
C18_UnboundedIsNotContained ==
    Checked =>
        /\ (Val(a).isUnbounded /\ ~Val(b).isUnbounded)
               => /\ ~Val(containment).isSubset
                  /\ IsDefined(Val(containment).counterexample)
        /\ (Val(b).isUnbounded /\ ~Val(a).isUnbounded)
               => /\ ~Val(containment).isSuperset
                  /\ IsDefined(Val(containment).reverseCounterexample)

\* an unbounded a whose test paths b all matches, so that only the depth
\* analysis tells them apart
C18_DecidedByDepth ==
    /\ Checked
    /\ Val(a).isUnbounded /\ ~Val(b).isUnbounded
    /\ PathsCheck(generateTestPaths(Val(a), 20), Val(b)).subset
    /\ ~Val(containment).isSubset
    /\ IsDefined(Val(containment).counterexample)
    /\ Len(pathToSegments(Val(Val(containment).counterexample))) = Val(Val(b).maxSegments) + 1

\* C19: in every checkContainment result isEqual = isSubset /\ isSuperset, and
\* the relationship is 'equal' iff isEqual, 'subset' iff isSubset and not
\* isSuperset, 'superset' iff isSuperset and not isSubset, 'disjoint' iff none
\* of isSubset, isSuperset, hasOverlap holds, and 'overlapping' otherwise.
C19_RelationshipFollowsBooleans ==
    Checked =>
        /\ Val(containment).isEqual
               = (Val(containment).isSubset /\ Val(containment).isSuperset)
        /\ (Val(containment).relationship = "equal") = Val(containment).isEqual
        /\ (Val(containment).relationship = "subset")
               = (Val(containment).isSubset /\ ~Val(containment).isSuperset)
        /\ (Val(containment).relationship = "superset")
               = (Val(containment).isSuperset /\ ~Val(containment).isSubset)
        /\ (Val(containment).relationship = "disjoint")
               = (/\ ~Val(containment).isSubset
                  /\ ~Val(containment).isSuperset
                  /\ ~Val(containment).hasOverlap)
        /\ (Val(containment).relationship = "overlapping")
               = (/\ ~Val(containment).isSubset
                  /\ ~Val(containment).isSuperset
                  /\ Val(containment).hasOverlap)

\* neither pattern contains the other and a common path was found: the
\* relationship is 'overlapping'
C19_OverlappingPatterns ==
    /\ Checked
    /\ ~Val(containment).isSubset /\ ~Val(containment).isSuperset
    /\ Val(containment).hasOverlap
    /\ ~Val(containment).isEqual
    /\ Val(containment).relationship = "overlapping"

\* the ids of the states whose accepting bit is set
AcceptingBits(automaton) ==
    {automaton.states[i].id : i \in {j \in 1..Len(automaton.states) : automaton.states[j].accepting}}

ListsAcceptingBits(automaton) == Range(automaton.acceptingStates) = AcceptingBits(automaton)

\* C20: in every automaton made by a sequence of buildAutomaton, determinize,
\* complement, intersect and union, the acceptingStates list holds exactly the
\* ids of the states whose accepting bit is set.
C20_AcceptingListIsAcceptingBits ==
    /\ IsDefined(a) => ListsAcceptingBits(Val(a).automaton)
    /\ IsDefined(b) => ListsAcceptingBits(Val(b).automaton)
    /\ Returned => ListsAcceptingBits(Val(det).outcome.automaton)
    /\ \A i \in 1..Len(result) : ListsAcceptingBits(result[i].automaton)

\* an intersection of two differences, each a product with a complement of a
\* determinized automaton, with accepting and non-accepting states
C20_AfterThreeOperations ==
    /\ op = <<"difference", "difference", "intersect">>
    /\ AcceptingBits(result[3].automaton) # {}
    /\ \E i \in 1..Len(result[3].automaton.states) : ~result[3].automaton.states[i].accepting
    /\ ListsAcceptingBits(result[3].automaton)

\* the bounds of a compiled pattern agree: unbounded exactly when it has no
\* maxSegments
BoundsAgree(pattern) == pattern.isUnbounded = ~IsDefined(pattern.maxSegments)

\* C21: for every compiled pattern made by compilePattern and then by
\* patternIntersect, patternUnion, patternComplement and patternDifference,
\* isUnbounded is true exactly when maxSegments is undefined.
C21_UnboundedIffNoMaxSegments ==
    /\ IsDefined(a) => BoundsAgree(Val(a))
    /\ IsDefined(b) => BoundsAgree(Val(b))
    /\ \A i \in 1..Len(result) : BoundsAgree(result[i])

\* the intersection of an unbounded and a bounded pattern is bounded by the
\* bounded operand
C21_IntersectionOfUnboundedAndBounded ==
    /\ op = <<"intersect">>
    /\ Val(a).isUnbounded /\ ~Val(b).isUnbounded
    /\ ~result[1].isUnbounded
    /\ result[1].maxSegments = Val(b).maxSegments

\* segments a path can hold: names, the empty segment of '/a//b', and a name
\* with a line feed
StepSegments == PathSegments \cup {<<>>, <<"a", "\n", "b">>}

SinkOf(automaton) == automaton.states[Len(automaton.states)]

\* the last state is a non-accepting sink whose only transition is a catch-all
\* wildcard self-loop
EndsWithSink(automaton) ==
    /\ automaton.states # <<>>
    /\ SinkOf(automaton).id = Len(automaton.states) - 1
    /\ ~SinkOf(automaton).accepting
    /\ SinkOf(automaton).id \notin Range(automaton.acceptingStates)
    /\ SinkOf(automaton).transitions = <<CatchAllWildcard(SinkOf(automaton).id)>>

OthersHaveCatchAll(automaton) ==
    \A i \in 1..(Len(automaton.states) - 1) : hasCatchAll(automaton.states[i])

StepIsTotal(automaton) ==
    \A i \in 1..Len(automaton.states) : \A segment \in StepSegments :
        IsDefined(getDeterministicTarget(automaton.states[i].transitions, segment))

\* C22: every automaton determinize returns is complete: its last state is a
\* fresh non-accepting sink whose only transition is a catch-all wildcard
\* self-loop, every other state has a catch-all wildcard transition, and from
\* every state the deterministic step finds a target for every segment.
C22_DeterminizedIsComplete ==
    Returned =>
        /\ EndsWithSink(Val(det).outcome.automaton)
        /\ Val(det).input.isDeterministic
               => Len(Val(det).outcome.automaton.states) = Len(Val(det).input.states) + 1
        /\ OthersHaveCatchAll(Val(det).outcome.automaton)
        /\ StepIsTotal(Val(det).outcome.automaton)

\* the part of C22 about the shape of the automaton
C22_SinkAndCatchAlls ==
    Returned =>
        /\ EndsWithSink(Val(det).outcome.automaton)
        /\ OthersHaveCatchAll(Val(det).outcome.automaton)

SameAcceptingStructure(x, y) ==
    /\ Len(x.states) = Len(y.states)
    /\ \A i \in 1..Len(x.states) : x.states[i].accepting = y.states[i].accepting
    /\ Range(x.acceptingStates) = Range(y.acceptingStates)

\* C23: for every automaton dfa determinize returns, complement(complement(dfa))
\* has the same number of states, the same accepting bit in each state, and the
\* same set of acceptingStates as dfa.
C23_DoubleComplementRestores ==
    Returned =>
        SameAcceptingStructure(complement(complement(Val(det).outcome.automaton)),
                               Val(det).outcome.automaton)

\* a determinized automaton with accepting states whose complement accepts in
\* other states, and whose double complement is the automaton again
C23_ComplementDiffers ==
    /\ Returned
    /\ Val(det).outcome.automaton.acceptingStates # <<>>
    /\ Range(complement(Val(det).outcome.automaton).acceptingStates)
           \cap Range(Val(det).outcome.automaton.acceptingStates) = {}
    /\ complement(Val(det).outcome.automaton).acceptingStates # <<>>
    /\ SameAcceptingStructure(complement(complement(Val(det).outcome.automaton)),
                              Val(det).outcome.automaton)

GlobstarFreeSequence(root) ==
    /\ root.type = "sequence"
    /\ \A i \in 1..Len(root.segments) : root.segments[i].type # "globstar"

\* C24: matchPathDirect is true only for a full match; in particular, for a
\* sequence pattern of k segments without a globstar it is false on every path
\* of more than k segments.
C24_DirectMatchIsFull ==
    (Matched /\ GlobstarFreeSequence(Val(a).ast.root)
             /\ Len(pathToSegments(Val(path))) > Len(Val(a).ast.root.segments))
        => ~Val(verdict).direct

\* the number of transition paths from a state to an accepting state that
\* consume exactly `left` segments
RECURSIVE AcceptingRuns(_, _, _)
RECURSIVE RunsThrough(_, _, _, _)
AcceptingRuns(automaton, stateId, left) ==
    IF ~HasState(automaton, stateId) THEN 0
    ELSE (IF left = 0 /\ State(automaton, stateId).accepting THEN 1 ELSE 0)
         + RunsThrough(automaton, State(automaton, stateId).transitions, 1, left)

RunsThrough(automaton, transitions, i, left) ==
    IF i > Len(transitions) THEN 0
    ELSE (IF transitions[i].type = "epsilon"
          THEN AcceptingRuns(automaton, transitions[i].target, left)
          ELSE IF transitions[i].type = "globstar"
          THEN AcceptingRuns(automaton, transitions[i].exit, left)
               + (IF left > 0 THEN AcceptingRuns(automaton, transitions[i].selfLoop, left - 1)
                  ELSE 0)
          ELSE IF left > 0 THEN AcceptingRuns(automaton, transitions[i].target, left - 1)
          ELSE 0)
         + RunsThrough(automaton, transitions, i + 1, left)

\* counts.get(depth), a depth the Map does not hold read as 0
CountAt(counts, depth) == IF depth \in DOMAIN counts THEN counts[depth] ELSE 0

\* C25: for an automaton made by buildAutomaton and every depth d <= maxDepth,
\* countPaths(A, maxDepth).get(d) is the number of distinct accepting runs of A
\* that consume exactly d segments.
C25_CountsAreAcceptingRuns ==
    IsDefined(counted) =>
        \A d \in 0..Val(counted).maxDepth :
            CountAt(Val(counted).counts, d)
                = AcceptingRuns(Val(a).automaton, Val(a).automaton.initialState, d)

ValidTargets(automaton, transition) ==
    \A target \in Range(getTransitionTargets(transition)) : HasState(automaton, target)

WellFormed(automaton) ==
    /\ \A i \in 1..Len(automaton.states) : automaton.states[i].id = i - 1
    /\ HasState(automaton, automaton.initialState)
    /\ \A i \in 1..Len(automaton.states) :
           \A j \in 1..Len(automaton.states[i].transitions) :
               ValidTargets(automaton, automaton.states[i].transitions[j])

\* C26: every automaton made by a sequence of buildAutomaton, determinize,
\* complement, intersect and union is well-formed: each state's id is its
\* index in states, initialState is a valid index, and every transition's
\* target, selfLoop and exit is a valid index.
C26_AutomataAreWellFormed ==
    /\ IsDefined(a) => WellFormed(Val(a).automaton)
    /\ IsDefined(b) => WellFormed(Val(b).automaton)
    /\ Returned => WellFormed(Val(det).outcome.automaton)
    /\ \A i \in 1..Len(result) : WellFormed(result[i].automaton)

\* a union of two determinized automata: the second operand's states and
\* transition targets are renumbered behind the first operand's
C26_AfterUnion ==
    /\ op = <<"union">>
    /\ ~result[1].automaton.isDeterministic
    /\ Len(result[1].automaton.states) > Len(Val(a).automaton.states) + Len(Val(b).automaton.states)
    /\ \E i \in 1..Len(result[1].automaton.states) :
           \E j \in 1..Len(result[1].automaton.states[i].transitions) :
               /\ result[1].automaton.states[i].transitions[j].type = "literal"
               /\ result[1].automaton.states[i].transitions[j].target > Len(Val(a).automaton.states)
    /\ WellFormed(result[1].automaton)

\* C27: in every checkContainment result isSubset or isSuperset implies
\* hasOverlap, so 'equal', 'subset' and 'superset' are never reported together
\* with hasOverlap = false.
C27_ContainmentImpliesOverlap ==
    Checked =>
        /\ (Val(containment).isSubset \/ Val(containment).isSuperset)
               => Val(containment).hasOverlap
        /\ Val(containment).relationship \in {"equal", "subset", "superset"}
               => Val(containment).hasOverlap

\* a is a proper subset of b by the test paths, and none of the combined paths
\* is matched by both: the overlap is found by a's test paths
C27_SubsetFoundByTestPaths ==
    /\ Checked
    /\ Val(containment).isSubset /\ ~Val(containment).isSuperset
    /\ Val(containment).relationship = "subset"
    /\ ~checkHasOverlapOfCombinedPaths(Val(a), Val(b))
    /\ Val(containment).hasOverlap

MirrorOf(relationship) ==
    IF relationship = "subset" THEN "superset"
    ELSE IF relationship = "superset" THEN "subset"
    ELSE relationship

Mirrored(forward, backward) ==
    /\ backward.isSubset = forward.isSuperset
    /\ backward.isSuperset = forward.isSubset
    /\ backward.hasOverlap = forward.hasOverlap
    /\ backward.relationship = MirrorOf(forward.relationship)

WithinBounds(pattern, segments) ==
    simulateNFA(pattern.automaton, segments)
        => /\ Len(segments) >= pattern.minSegments
           /\ IsDefined(pattern.maxSegments) => Len(segments) <= Val(pattern.maxSegments)

CompiledAs(source, negated) == compilePattern(parsePattern([source EXCEPT !.negated = negated]))

\* the first operation of the session, on the given operands
FirstOperation(pa, pb) ==
    CASE op[1] = "intersect" -> patternIntersect(pa, Val(pb))
      [] op[1] = "union" -> patternUnion(pa, Val(pb))
      [] op[1] = "complement" -> patternComplement(pa)
      [] op[1] = "difference" -> patternDifference(pa, Val(pb))

\* operand b compiled with the given flag, when there is an operand b
OperandB(negated) == IF IsDefined(b) THEN Some(CompiledAs(Val(srcB), negated)) ELSE None

====
